---- MODULE Spec2Model ----
(***************************************************************************)
(* A model of zarrcade's discovery-and-cataloging pipeline:                *)
(*   - the catalog (src/zarrcade/database.py): collections, metadata rows, *)
(*     image records, persist_image / persist_images, get_dbimages paging; *)
(*   - the discovery walker (src/zarrcade/agents/agent.py) and the OME-Zarr*)
(*     agent (src/zarrcade/agents/omezarr.py).                             *)
(* Python strings are modelled as sequences of one-character strings, so   *)
(* that f"{path}{group_path}" is sequence concatenation.                   *)
(***************************************************************************)
EXTENDS Integers, Sequences, FiniteSets, TLC

VARIABLES
    collections,      \* rows of table 'collections'
    collection_map,   \* Database.collection_map: name -> row
    image_metadata,   \* rows of table 'image_metadata'
    images,           \* rows of table 'images'
    last,             \* the last catalog call: its name, arguments and result
    source,           \* the image source handed to persist_images
    pg,               \* the last get_dbimages call: its arguments and result
    metadata_columns, \* rows of table 'metadata_columns'
    column_map,       \* Database.column_map: collection id -> db_name -> original_name
    reverse_column_map, \* Database.reverse_column_map: collection id -> original_name -> db_name
    table_columns,    \* dynamic columns of table 'image_metadata' (DBImageMetadata attributes)
    qry,              \* the last query of the catalog: its arguments and result
    agents,           \* yield_images' agents, in registration order
    asked,            \* the calls made to the agents, in order
    hierarchy,        \* the zarr hierarchy of the container handed to the decoder
    store,            \* the file store the walker reads
    exclude_paths,    \* yield_images' exclude_paths
    maxdepth,         \* yield_images' maxdepth
    todo,             \* the yield_images calls not yet begun, next first
    decoding,         \* the container whose images are being produced
    listed,           \* the paths get_children was called with
    answers,          \* the (path, WalkResult) answers of the agents
    yielded,          \* the (path, image) pairs yielded so far
    logged,           \* the failures logger.catch has logged
    status,           \* of the persist_images run fed by the walker
    run_count         \* persist_images' count

catalogVars == <<collections, collection_map, image_metadata, images, last, source>>

walkVars == <<agents, asked, hierarchy, store, exclude_paths, maxdepth, todo, decoding, listed, answers,
              yielded, logged, status, run_count>>

schemaVars == <<metadata_columns, column_map, reverse_column_map, table_columns>>

vars == <<collections, collection_map, image_metadata, images, last, source, pg,
          metadata_columns, column_map, reverse_column_map, table_columns, qry,
          agents, asked, hierarchy, store, exclude_paths, maxdepth, todo, decoding, listed, answers,
          yielded, logged, status, run_count>>

----------------------------------------------------------------------------
(* Bounds of the model *)

\* most rows the images table is let to grow to
MaxImages == 2

\* most rows the image_metadata table is let to grow to
MaxMeta == 3

----------------------------------------------------------------------------
(* Input alphabets *)

CollectionNames == {"c1", "c2"}

\* container paths "a" and "a/0"
Paths == {<<"a">>, <<"a", "/", "0">>}

\* group paths "" and "/0"
GroupPaths == {<<>>, <<"/", "0">>}

ChannelCounts == {1, 2}

\* names of dynamic columns of table image_metadata
DbNames == {"d1", "d2"}

\* Python None / SQL NULL in an integer column
NULL == -1

\* model.Channel, reduced to name and color; "class" is the Python type of the
\* value, which == compares before the fields
Channel(name, color) == [class |-> "Channel", name |-> name, color |-> color]

\* model.Axis, reduced to name and extent
Axis(name, extent) == [class |-> "Axis", name |-> name, extent |-> extent]

\* model.Image, reduced to the field the catalog reads (group_path), one
\* scalar content field, and the two fields that hold nested dataclasses:
\* channels (a list of Channel) and axes (the values of the dict of Axis)
ImageOf(group_path, num_channels, channels, axes) ==
    [group_path |-> group_path, num_channels |-> num_channels,
     channels |-> channels, axes |-> axes]

\* Image(group_path=..., num_channels=...): channels and axes take their
\* default, the empty list
Image(group_path, num_channels) == ImageOf(group_path, num_channels, <<>>, <<>>)

Descriptors == {Image(g, n) : g \in GroupPaths, n \in ChannelCounts}

----------------------------------------------------------------------------
(* Helpers of the storage layer *)

\* SQLite INTEGER PRIMARY KEY: the next rowid is the largest one in use plus 1
NextId(rows) ==
    IF rows = {} THEN 1
    ELSE (CHOOSE m \in {r.id : r \in rows} : \A r \in rows : r.id <= m) + 1

\* dataclasses.asdict on a nested dataclass instance: a dict of its fields
asdict_inner(obj) == [obj EXCEPT !.class = "dict"]

\* dataclasses.asdict(image): the fields in order, dataclass instances inside
\* lists and dicts turned into dicts
asdict(image) ==
    << <<"group_path", image.group_path>>,
       <<"num_channels", image.num_channels>>,
       <<"channels", [i \in 1..Len(image.channels) |-> asdict_inner(image.channels[i])]>>,
       <<"axes", [i \in 1..Len(image.axes) |-> asdict_inner(image.axes[i])]>> >>

\* DBImage.set_image: json.dumps(asdict(image)), the JSON object as the list
\* of its (key, value) pairs; strings, numbers, lists and dicts are written
\* as they are
set_image(image) == asdict(image)

\* DBImage.get_image: Image(**json.loads(self.image_info)), every keyword
\* stored in the field as json.loads returned it
get_image(image_info) ==
    LET value(key) == image_info[CHOOSE i \in 1..Len(image_info) : image_info[i][1] = key][2]
    IN  ImageOf(value("group_path"), value("num_channels"), value("channels"), value("axes"))

\* Python truthiness of an Optional[int]
Truthy(x) == x # NULL /\ x # 0

----------------------------------------------------------------------------
(* Database.persist_image *)

\* the query .filter_by(collection_id, image_path).first()
first_image(imgs, collection_id, image_path) ==
    LET found == {r \in imgs : r.collection_id = collection_id /\ r.image_path = image_path}
    IN  IF found = {} THEN {}
        ELSE {CHOOSE r \in found : \A q \in found : r.id <= q.id}

\* a buggy upsert that never looks for the existing record
persist_image_always_insert(imgs, collection_id, path, image, metadata_id) ==
    [images |-> imgs \cup {[id |-> NextId(imgs),
                            collection_id |-> collection_id,
                            image_path |-> path \o image.group_path,
                            path |-> path,
                            group_path |-> image.group_path,
                            image_metadata_id |-> metadata_id,
                            image_info |-> set_image(image)]},
     inserted |-> TRUE]

\* a buggy upsert that forgets the metadata link on update
persist_image_stale_link(imgs, collection_id, path, image, metadata_id) ==
    LET image_path == path \o image.group_path
        found == first_image(imgs, collection_id, image_path)
    IN  IF found # {} THEN
            LET db_image == CHOOSE r \in found : TRUE
            IN  [images |-> (imgs \ {db_image}) \cup
                            {[db_image EXCEPT !.path = path,
                                              !.group_path = image.group_path,
                                              !.image_info = set_image(image)]},
                 inserted |-> FALSE]
        ELSE persist_image_always_insert(imgs, collection_id, path, image, metadata_id)

\* The images table after persist_image, and its return value
persist_image(imgs, collection_id, path, image, metadata_id) ==
    LET group_path == image.group_path
        image_path == path \o group_path
        found == first_image(imgs, collection_id, image_path)
    IN  IF found # {} THEN
            LET db_image == CHOOSE r \in found : TRUE
            IN  [images |-> (imgs \ {db_image}) \cup
                            {[db_image EXCEPT !.path = path,
                                              !.group_path = group_path,
                                              !.image_metadata_id = metadata_id,
                                              !.image_info = set_image(image)]},
                 inserted |-> FALSE]
        ELSE
            [images |-> imgs \cup {[id |-> NextId(imgs),
                                    collection_id |-> collection_id,
                                    image_path |-> image_path,
                                    path |-> path,
                                    group_path |-> group_path,
                                    image_metadata_id |-> metadata_id,
                                    image_info |-> set_image(image)]},
             inserted |-> TRUE]

----------------------------------------------------------------------------
(* Database.persist_images *)

\* Database.get_path_to_metadata_id_map: the dict {path: id} of the rows of
\* one collection (a later row of the same path overwrites an earlier one)
get_path_to_metadata_id_map(meta, collection_id) ==
    LET rows == {r \in meta : r.collection_id = collection_id}
    IN  [p \in {r.path : r \in rows} |->
            LET same == {r \in rows : r.path = p}
            IN  (CHOOSE r \in same : \A q \in same : q.id <= r.id).id]

\* a buggy resolution that tries the bare container path first
resolve_metadata_id_container_first(metadata_ids, path, image) ==
    LET full_path == path \o image.group_path
    IN  IF path \in DOMAIN metadata_ids THEN metadata_ids[path]
        ELSE IF full_path \in DOMAIN metadata_ids THEN metadata_ids[full_path]
        ELSE NULL

\* persist_images, the if/elif/else that picks metadata_id
resolve_metadata_id(metadata_ids, path, image) ==
    LET full_path == path \o image.group_path
    IN  IF full_path \in DOMAIN metadata_ids THEN metadata_ids[full_path]
        ELSE IF path \in DOMAIN metadata_ids THEN metadata_ids[path]
        ELSE NULL

\* a buggy loop body that ignores only_with_metadata
persist_one_unfiltered(imgs, collection_id, metadata_ids, path, image, only_with_metadata) ==
    [images |-> persist_image(imgs, collection_id, path, image,
                              resolve_metadata_id(metadata_ids, path, image)).images,
     persisted |-> 1]

\* persist_images, the body of its for loop, run for one produced (path, image)
persist_one(imgs, collection_id, metadata_ids, path, image, only_with_metadata) ==
    LET metadata_id == resolve_metadata_id(metadata_ids, path, image)
    IN  IF Truthy(metadata_id) \/ ~only_with_metadata
        THEN [images |-> persist_image(imgs, collection_id, path, image, metadata_id).images,
              persisted |-> 1]
        ELSE [images |-> imgs, persisted |-> 0]

\* persist_images, its for loop over the produced (path, image) pairs
RECURSIVE persist_loop(_, _, _, _, _, _)
persist_loop(imgs, collection_id, metadata_ids, produced, only_with_metadata, count) ==
    IF produced = <<>> THEN [images |-> imgs, count |-> count]
    ELSE LET step == persist_one(imgs, collection_id, metadata_ids,
                                 produced[1][1], produced[1][2], only_with_metadata)
         IN  persist_loop(step.images, collection_id, metadata_ids, Tail(produced),
                          only_with_metadata, count + step.persisted)

\* The images table after persist_images, and the count it returns
persist_images(imgs, meta, collection_id, produced, only_with_metadata) ==
    persist_loop(imgs, collection_id, get_path_to_metadata_id_map(meta, collection_id),
                 produced, only_with_metadata, 0)

----------------------------------------------------------------------------
(* Database.add_collection, Database.add_image_metadata *)

SettingsPaths == {"s1"}

\* paths of metadata rows: "a" and "a/0"
MetaPaths == {<<"a">>, <<"a", "/", "0">>}

\* a nullable string column: NULL, or the string s
NoneStr == <<>>

Str(s) == <<s>>

\* the values of the dynamic columns of a new row: those the dict gives,
\* NULL for the other columns
insert_values(row) ==
    [c \in DbNames |-> IF c \in DOMAIN row.cols THEN row.cols[c] ELSE NoneStr]

\* the values of the dynamic columns of an updated row: those the dict gives,
\* the stored ones for the other columns
update_values(stored, row) ==
    [c \in DbNames |-> IF c \in DOMAIN row.cols THEN row.cols[c] ELSE stored.cols[c]]

\* a buggy add_image_metadata whose table has no uniqueness constraint
RECURSIVE add_rows_no_constraint(_, _, _, _, _)
add_rows_no_constraint(meta, collection_id, rows, inserted, updated) ==
    IF rows = <<>> THEN [image_metadata |-> meta, inserted |-> inserted, updated |-> updated]
    ELSE add_rows_no_constraint(meta \cup {[id |-> NextId(meta),
                                            collection_id |-> collection_id,
                                            path |-> rows[1].path,
                                            cols |-> insert_values(rows[1])]},
                                collection_id, Tail(rows), inserted + 1, updated)

\* add_image_metadata, its for loop: insert the row, or on the IntegrityError of
\* uq_collection_path update the row of the same (collection_id, path) with
\* the values of the dict
RECURSIVE add_rows(_, _, _, _, _)
add_rows(meta, collection_id, rows, inserted, updated) ==
    IF rows = <<>> THEN [image_metadata |-> meta, inserted |-> inserted, updated |-> updated]
    ELSE LET row == [rows[1] EXCEPT !.collection_id = collection_id]
             clash == {r \in meta : r.collection_id = collection_id /\ r.path = row.path}
         IN  IF clash = {}
             THEN add_rows(meta \cup {[id |-> NextId(meta),
                                       collection_id |-> collection_id,
                                       path |-> row.path,
                                       cols |-> insert_values(row)]},
                           collection_id, Tail(rows), inserted + 1, updated)
             ELSE add_rows((meta \ clash) \cup
                               {[r EXCEPT !.collection_id = collection_id,
                                          !.path = row.path,
                                          !.cols = update_values(r, row)]
                                   : r \in clash},
                           collection_id, Tail(rows), inserted, updated + 1)

\* The record of a call, with the fields a call does not use left at these
\* values; returned: the value the call returned, {} for None
NoCall ==
    [op |-> "none", collection |-> "", path |-> <<>>, image |-> Image(<<>>, 1),
     metadata_id |-> NULL, only_with_metadata |-> FALSE, count |-> 0,
     inserted |-> FALSE, raised |-> FALSE, again |-> FALSE, returned |-> {},
     settings_path |-> "", rows |-> <<>>]

\* add_collection(name, settings_path) of a new name: insert and cache the row
AddCollectionNew(name, settings_path) ==
    /\ name \notin DOMAIN collection_map
    /\ LET row == [id |-> NextId(collections), name |-> name, settings_path |-> settings_path]
       IN  /\ collections' = collections \cup {row}
           /\ collection_map' = [n \in DOMAIN collection_map \cup {name} |->
                                    IF n = name THEN row ELSE collection_map[n]]
    /\ last' = [NoCall EXCEPT !.op = "add_collection", !.collection = name,
                              !.settings_path = settings_path,
                              !.returned = {[id |-> NextId(collections), name |-> name,
                                             settings_path |-> settings_path]}]
    /\ UNCHANGED <<image_metadata, images, source>>
    /\ UNCHANGED <<pg, qry, schemaVars, walkVars>>

\* a buggy add_collection that takes the new settings path of a known name
AddCollectionKnownOverwrites(name, settings_path) ==
    /\ name \in DOMAIN collection_map
    /\ LET row == [collection_map[name] EXCEPT !.settings_path = settings_path]
       IN  /\ collections' = (collections \ {collection_map[name]}) \cup {row}
           /\ collection_map' = [collection_map EXCEPT ![name] = row]
    /\ last' = [NoCall EXCEPT !.op = "add_collection", !.collection = name,
                              !.settings_path = settings_path]
    /\ UNCHANGED <<image_metadata, images, source>>
    /\ UNCHANGED <<pg, qry, schemaVars, walkVars>>

\* add_collection(name, settings_path) of a known name: return None, or raise
\* ValueError when the settings path differs
AddCollectionKnown(name, settings_path) ==
    /\ name \in DOMAIN collection_map
    /\ last' = [NoCall EXCEPT !.op = "add_collection", !.collection = name,
                              !.settings_path = settings_path,
                              !.raised = (collection_map[name].settings_path # settings_path)]
    /\ UNCHANGED <<collections, collection_map, image_metadata, images, source>>
    /\ UNCHANGED <<pg, qry, schemaVars, walkVars>>

\* add_image_metadata(collection_name, rows)
AddImageMetadata(collection_name, rows) ==
    /\ collection_name \in DOMAIN collection_map
    /\ LET r == add_rows(image_metadata, collection_map[collection_name].id, rows, 0, 0)
       IN  /\ Cardinality(r.image_metadata) <= MaxMeta
           /\ image_metadata' = r.image_metadata
           /\ last' = [NoCall EXCEPT !.op = "add_image_metadata",
                                     !.collection = collection_name,
                                     !.rows = rows,
                                     !.count = r.inserted,
                                     !.returned = {<<r.inserted, r.updated>>}]
    /\ UNCHANGED <<collections, collection_map, images, source>>
    /\ UNCHANGED <<pg, qry, schemaVars, walkVars>>

\* persist_image(collection, path, image, metadata_id)
PersistImage(collection, path, image, metadata_id) ==
    /\ collection \in DOMAIN collection_map
    /\ LET r == persist_image(images, collection_map[collection].id, path, image, metadata_id)
       IN  /\ Cardinality(r.images) <= MaxImages
           /\ images' = r.images
           /\ last' = [NoCall EXCEPT !.op = "persist_image", !.collection = collection,
                                     !.path = path, !.image = image,
                                     !.metadata_id = metadata_id,
                                     !.inserted = r.inserted]
    /\ UNCHANGED <<collections, collection_map, image_metadata, source>>
    /\ UNCHANGED <<pg, qry, schemaVars, walkVars>>

\* persist_images(collection, image_generator, only_with_metadata), the
\* generator producing the pairs of source
PersistImages(collection, only_with_metadata) ==
    /\ collection \in DOMAIN collection_map
    /\ LET r == persist_images(images, image_metadata, collection_map[collection].id,
                               source, only_with_metadata)
       IN  /\ Cardinality(r.images) <= MaxImages
           /\ images' = r.images
           /\ last' = [NoCall EXCEPT !.op = "persist_images", !.collection = collection,
                                     !.only_with_metadata = only_with_metadata,
                                     !.count = r.count,
                                     !.again = (/\ last.op = "persist_images"
                                                /\ last.collection = collection
                                                /\ last.only_with_metadata = only_with_metadata)]
    /\ UNCHANGED <<collections, collection_map, image_metadata, source>>
    /\ UNCHANGED <<pg, qry, schemaVars, walkVars>>

\* most pairs an image source produces
MaxSrcLen == 2

Produced == Paths \X Descriptors

RECURSIVE SeqsUpTo(_, _)
SeqsUpTo(S, n) ==
    IF n = 0 THEN {<<>>}
    ELSE LET shorter == SeqsUpTo(S, n - 1)
         IN  shorter \cup {Append(q, x) : q \in shorter, x \in S}

Sources == SeqsUpTo(Produced, MaxSrcLen)

\* the metadata ids a caller passes to persist_image: none, or a row id
MetadataIds == {NULL, 1}

\* a source producing one image path twice, split differently into container
\* path and group path: ("a", "/0") and ("a/0", "")
TwoSplits ==
    << <<(<<"a">>), Image(<<"/", "0">>, 1)>>, <<(<<"a", "/", "0">>), Image(<<>>, 2)>> >>

\* no get_dbimages call made
NoPage == [op |-> "none", total |-> 0, page |-> 0, page_size |-> 0,
           raised |-> FALSE, images |-> <<>>, pagination |-> <<>>]

\* no dynamic metadata column registered
NoColumns ==
    /\ metadata_columns = {}
    /\ column_map = <<>>
    /\ reverse_column_map = <<>>
    /\ table_columns = {}

\* no query made
NoQuery == [op |-> "none", collection |-> "", column |-> "", result |-> <<>>]

\* no walk under way
\* no container is being decoded
NoHierarchy ==
    [layout |-> FALSE, ome |-> FALSE, series |-> <<>>, groups |-> {}, multiscales |-> {}]

WalkIdle ==
    /\ agents = <<>>
    /\ asked = <<>>
    /\ hierarchy = NoHierarchy
    /\ store = [zattrs |-> {}, zarray |-> {}, multi |-> {}, denied |-> {}, corrupt |-> {}, cyclic |-> {}]
    /\ exclude_paths = <<>>
    /\ maxdepth = 0
    /\ todo = <<>>
    /\ decoding = <<>>
    /\ listed = {}
    /\ answers = {}
    /\ yielded = <<>>
    /\ logged = 0
    /\ status = "idle"
    /\ run_count = 0

\* the (path, image) pairs persist_image is called with: those of image path
\* "a" or "a/0", the latter split as ("a", "/0") or as ("a/0", "")
UpsertInputs ==
    {pd \in Produced : pd[1] \o pd[2].group_path \in {<<"a">>, <<"a", "/", "0">>}}

----------------------------------------------------------------------------
(* Spec: the catalog under add_collection, persist_image and persist_images *)

\* An empty catalog, as Database.__init__ finds it on a new database
Init ==
    /\ collections = {}
    /\ collection_map = <<>>
    /\ image_metadata = {}
    /\ images = {}
    /\ last = NoCall
    /\ source = TwoSplits
    /\ pg = NoPage
    /\ WalkIdle
    /\ NoColumns
    /\ qry = NoQuery

Next ==
    \/ \E n \in CollectionNames, s \in SettingsPaths : AddCollectionNew(n, s)
    \/ \E n \in CollectionNames, s \in SettingsPaths : AddCollectionKnown(n, s)
    \/ \E n \in CollectionNames, pd \in UpsertInputs, m \in MetadataIds :
          PersistImage(n, pd[1], pd[2], m)
    \/ \E n \in CollectionNames, o \in BOOLEAN : PersistImages(n, o)

Spec == Init /\ [][Next]_vars

----------------------------------------------------------------------------
(* SpecImport: import runs of one collection over an unchanging image source *)

InitImport ==
    /\ collections = {}
    /\ collection_map = <<>>
    /\ image_metadata = {}
    /\ images = {}
    /\ last = NoCall
    /\ source \in Sources
    /\ pg = NoPage
    /\ WalkIdle
    /\ NoColumns
    /\ qry = NoQuery

NextImport ==
    \/ AddCollectionNew("c1", "s1")
    \/ \E p \in MetaPaths : AddImageMetadata("c1", <<[path |-> p, collection_id |-> NULL, cols |-> <<>>]>>)
    \/ \E o \in BOOLEAN : PersistImages("c1", o)

SpecImport == InitImport /\ [][NextImport]_vars

----------------------------------------------------------------------------
(* Claims about persist_image, checked under Spec *)

\* C1: after any sequence of persist_image / persist_images calls the images
\* table holds at most one record for each (collection, image_path), and the
\* image_path of a record is its container path followed by its group_path.
C1_UniqueImageKey ==
    /\ \A r, q \in images :
          (r.collection_id = q.collection_id /\ r.image_path = q.image_path) => r = q
    /\ \A r \in images : r.image_path = r.path \o r.group_path

\* an update has just been made while two collections hold the same image_path
C1_Witness ==
    /\ last.op = "persist_image" /\ ~last.inserted
    /\ \E r, q \in images : r.collection_id # q.collection_id /\ r.image_path = q.image_path

\* C3: persist_image of a (collection, image_path) that has a record updates
\* that record in place (same id; path, group_path, metadata link and
\* serialized descriptor take the new values; no record is added and no other
\* record changes); with no such record exactly one record is inserted.
C3_UpsertInPlace ==
    [][last'.op = "persist_image" =>
        LET cid == collection_map[last'.collection].id
            image_path == last'.path \o last'.image.group_path
            before == {r \in images : r.collection_id = cid /\ r.image_path = image_path}
            after == {r \in images' : r.collection_id = cid /\ r.image_path = image_path}
            asCalled(r) == /\ r.path = last'.path
                           /\ r.group_path = last'.image.group_path
                           /\ r.image_metadata_id = last'.metadata_id
                           /\ r.image_info = set_image(last'.image)
        IN  /\ Cardinality(after) = 1
            /\ \A a \in after : asCalled(a)
            /\ images' \ after = images \ before
            /\ IF before # {}
               THEN /\ {a.id : a \in after} = {b.id : b \in before}
                    /\ Cardinality(images') = Cardinality(images)
                    /\ ~last'.inserted
               ELSE /\ Cardinality(images') = Cardinality(images) + 1
                    /\ last'.inserted
    ]_vars

\* the record with id 1, inserted as ("a", "/0"), has just been updated as
\* ("a/0", "") with another descriptor and link, a second record being present
C3_Witness ==
    /\ last.op = "persist_image" /\ ~last.inserted
    /\ last.path = <<"a", "/", "0">> /\ last.metadata_id = 1
    /\ Cardinality(images) = 2
    /\ \E r \in images : /\ r.id = 1
                         /\ r.path = <<"a", "/", "0">>
                         /\ r.group_path = <<>>
                         /\ r.image_metadata_id = 1

----------------------------------------------------------------------------
(* Claims about persist_images, checked under SpecImport *)

\* the metadata link the catalog's documentation gives a produced image: the
\* row of the full image path, else the row of the container path, else none
ExpectedLink(collection_id, path, image) ==
    LET rows == {r \in image_metadata : r.collection_id = collection_id}
        full == {r \in rows : r.path = path \o image.group_path}
        bare == {r \in rows : r.path = path}
    IN  IF full # {} THEN (CHOOSE r \in full : TRUE).id
        ELSE IF bare # {} THEN (CHOOSE r \in bare : TRUE).id
        ELSE NULL

\* the positions of source whose image a run with this flag persists
PersistedAt(collection_id, only_with_metadata) ==
    {i \in 1..Len(source) :
        ~only_with_metadata \/ ExpectedLink(collection_id, source[i][1], source[i][2]) # NULL}

\* the last of those positions producing the image path of position i
LastOf(S, i) ==
    \A j \in S : (source[j][1] \o source[j][2].group_path
                    = source[i][1] \o source[i][2].group_path) => j <= i

\* C2: a second run of persist_images on the same collection, with the same
\* image source and flag and an unchanged metadata table, leaves the images
\* table as it is (same rows, ids and serialized descriptors) and returns the
\* same count.
C2_RerunIdempotent ==
    [][(last'.op = "persist_images" /\ last'.again) =>
          (images' = images /\ last'.count = last.count)]_vars

\* a run has been repeated that produced one image path twice
C2_Witness ==
    /\ last.op = "persist_images" /\ last.again
    /\ last.count = 2
    /\ Cardinality(images) = 1

\* C8: persist_images links each image it persists to the Metadata row of the
\* full image path if there is one, else to the row of the bare container
\* path if there is one, else to nothing.
C8_LinkResolution ==
    [][last'.op = "persist_images" =>
        LET cid == collection_map[last'.collection].id
            kept == PersistedAt(cid, last'.only_with_metadata)
        IN  \A i \in kept : LastOf(kept, i) =>
              \E r \in images' :
                 /\ r.collection_id = cid
                 /\ r.image_path = source[i][1] \o source[i][2].group_path
                 /\ r.image_metadata_id = ExpectedLink(cid, source[i][1], source[i][2])
    ]_vars

\* rows keyed "a" and "a/0" exist; image ("a", "/0") is linked to the row of
\* its full path, image ("a/0", "/0") to the row of its container path
C8_Witness ==
    /\ last.op = "persist_images"
    /\ \E m1, m2 \in image_metadata :
          /\ m1.path = <<"a">> /\ m2.path = <<"a", "/", "0">>
          /\ \E r, q \in images :
                /\ r.path = <<"a">> /\ r.group_path = <<"/", "0">>
                /\ r.image_metadata_id = m2.id
                /\ q.path = <<"a", "/", "0">> /\ q.group_path = <<"/", "0">>
                /\ q.image_metadata_id = m2.id

\* C9: with only_with_metadata persist_images persists exactly the produced
\* images that have a metadata link and skips the others; without it every
\* produced image is persisted; the count returned is the number of images
\* the run inserted or updated.
C9_OnlyWithMetadata ==
    [][last'.op = "persist_images" =>
        LET cid == collection_map[last'.collection].id
            kept == PersistedAt(cid, last'.only_with_metadata)
            key(r) == <<r.collection_id, r.image_path>>
            keptKeys == {<<cid, source[i][1] \o source[i][2].group_path>> : i \in kept}
        IN  /\ last'.count = Cardinality(kept)
            /\ {key(r) : r \in images'} = {key(r) : r \in images} \cup keptKeys
            /\ \A r \in images : key(r) \notin keptKeys => r \in images'
            /\ \A i \in kept : LastOf(kept, i) =>
                  \E r \in images' : /\ key(r) = <<cid, source[i][1] \o source[i][2].group_path>>
                                     /\ r.image_info = set_image(source[i][2])
                                     /\ r.path = source[i][1]
            /\ ~last'.raised
    ]_vars

\* a filtered run has persisted one of two produced images and skipped the other
C9_Witness ==
    /\ last.op = "persist_images" /\ last.only_with_metadata
    /\ Len(source) = 2 /\ last.count = 1
    /\ Cardinality(images) = 1
    /\ \A r \in images : r.image_metadata_id # NULL

----------------------------------------------------------------------------
(* Database.get_dbimages, its pagination *)

\* most rows a query matches
MaxTotal == 10

\* largest page number asked for
MaxPage == 5

\* largest page size asked for
MaxPageSize == 4

Min(a, b) == IF a < b THEN a ELSE b

Max(a, b) == IF a > b THEN a ELSE b

\* query.limit(page_size).offset(offset).all() on SQLite, which reads a
\* negative OFFSET as 0
limit_offset(rows, page_size, offset) ==
    SubSeq(rows, Max(offset, 0) + 1, Min(Len(rows), Max(offset, 0) + page_size))

\* a buggy pagination that does not clamp end_num
get_dbimages_unclamped(rows, page, page_size) ==
    LET total_count == Len(rows)
        offset == (page - 1) * page_size
    IN  [images |-> IF page_size > 0 THEN limit_offset(rows, page_size, offset) ELSE rows,
         pagination |->
            [page |-> page,
             page_size |-> page_size,
             total_pages |-> IF page_size > 0
                             THEN (total_count + page_size - 1) \div page_size ELSE 1,
             total_count |-> total_count,
             start_num |-> offset + 1,
             end_num |-> offset + 1 + page_size - 1]]

\* get_dbimages from "Count total results" on, over the rows the filtered
\* query matches
get_dbimages(rows, page, page_size) ==
    LET total_count == Len(rows)
        offset == (page - 1) * page_size
        images_ == IF page_size > 0 THEN limit_offset(rows, page_size, offset) ELSE rows
        start_num == offset + 1
        end_num == IF start_num + page_size - 1 > total_count
                   THEN total_count
                   ELSE start_num + page_size - 1
        total_pages == IF page_size > 0
                       THEN (total_count + page_size - 1) \div page_size
                       ELSE 1
    IN  [images |-> images_,
         pagination |-> [page |-> page,
                         page_size |-> page_size,
                         total_pages |-> total_pages,
                         total_count |-> total_count,
                         start_num |-> start_num,
                         end_num |-> end_num]]

\* the rows a query matches, numbered in the order the query returns them
Matching(total) == [i \in 1..total |-> i]

\* get_dbimages(page, page_size) with page < 0: ValueError
GetDbimagesRaises ==
    /\ pg.op = "ask" /\ pg.page < 0
    /\ pg' = [pg EXCEPT !.op = "get_dbimages", !.raised = TRUE]
    /\ UNCHANGED <<catalogVars, qry, schemaVars, walkVars>>

\* get_dbimages(page, page_size) with page >= 0
GetDbimages ==
    /\ pg.op = "ask" /\ pg.page >= 0
    /\ LET r == get_dbimages(Matching(pg.total), pg.page, pg.page_size)
       IN  pg' = [pg EXCEPT !.op = "get_dbimages", !.images = r.images,
                            !.pagination = r.pagination]
    /\ UNCHANGED <<catalogVars, qry, schemaVars, walkVars>>

\* the caller asks for another page of the same result set
AskPage(page, page_size) ==
    /\ pg.op = "get_dbimages"
    /\ pg' = [NoPage EXCEPT !.op = "ask", !.total = pg.total,
                            !.page = page, !.page_size = page_size]
    /\ UNCHANGED <<catalogVars, qry, schemaVars, walkVars>>

----------------------------------------------------------------------------
(* SpecPage: get_dbimages over result sets of every size *)

InitPage ==
    /\ collections = {}
    /\ collection_map = <<>>
    /\ image_metadata = {}
    /\ images = {}
    /\ last = NoCall
    /\ source = <<>>
    /\ WalkIdle
    /\ NoColumns
    /\ qry = NoQuery
    /\ \E t \in 0..MaxTotal, p \in (-1)..MaxPage, z \in 0..MaxPageSize :
          pg = [NoPage EXCEPT !.op = "ask", !.total = t, !.page = p, !.page_size = z]

NextPage ==
    \/ GetDbimages
    \/ GetDbimagesRaises
    \/ \E p \in (-1)..MaxPage, z \in 0..MaxPageSize : AskPage(p, z)

SpecPage == InitPage /\ [][NextPage]_vars

\* C10: for total_count matching images, page_size > 0 and
\* 1 <= page <= total_pages, get_dbimages returns
\* min(page_size, total_count - (page-1)*page_size) images, the items numbered
\* start_num..end_num, and reports total_count,
\* total_pages = ceil(total_count / page_size),
\* start_num = (page-1)*page_size + 1 and end_num = min(page*page_size, total_count).
C10_Pagination ==
    LET ceil == CHOOSE k \in 0..pg.total :
                    k * pg.page_size >= pg.total /\ (k - 1) * pg.page_size < pg.total
    IN  (pg.op = "get_dbimages" /\ ~pg.raised /\ pg.page_size > 0
            /\ 1 <= pg.page /\ pg.page <= ceil) =>
            LET p == pg.pagination
            IN  /\ p.total_count = pg.total
                /\ p.total_pages = ceil
                /\ p.start_num = (pg.page - 1) * pg.page_size + 1
                /\ p.end_num = Min(pg.page * pg.page_size, pg.total)
                /\ Len(pg.images)
                      = Min(pg.page_size, pg.total - (pg.page - 1) * pg.page_size)
                /\ pg.images
                      = [i \in 1..(p.end_num - p.start_num + 1) |-> p.start_num + i - 1]

\* total 10, size 3, page 4: one item, numbered 10..10, of 4 pages
C10_Witness ==
    /\ pg.op = "get_dbimages" /\ pg.total = 10 /\ pg.page_size = 3 /\ pg.page = 4
    /\ Len(pg.images) = 1
    /\ pg.pagination.start_num = 10 /\ pg.pagination.end_num = 10
    /\ pg.pagination.total_pages = 4

----------------------------------------------------------------------------
(* The file store the walker reads *)

\* most directories of a store that hold a .zattrs file
MaxContainers == 3

Root == <<>>

\* os.path.relpath of a child: "a", "a/d"
Join(parent, name) ==
    IF parent = Root THEN <<name>> ELSE parent \o <<"/">> \o <<name>>

\* the directory tree: the names of the subdirectories of a path, in the
\* order fs.ls lists them
SubdirNames(path) ==
    CASE path = Root -> <<"a", "b">>
      [] path = <<"a">> -> <<"d", "e">>
      [] path = <<"b">> -> <<"d">>
      [] OTHER -> <<>>

Dirs == {Root, <<"a">>, <<"b">>, <<"a", "/", "d">>, <<"a", "/", "e">>, <<"b", "/", "d">>}

AtMostOne(S) == {{}} \cup {{x} : x \in S}

\* the image groups of a container, by group name: the container's own root
\* group "/", or the nested groups "/0" and "/1"
GroupsOf(st, path) ==
    IF path \in st.multi THEN << <<"/", "0">>, <<"/", "1">> >> ELSE << <<"/">> >>

\* The stores: which directories hold .zattrs and .zarray, which containers
\* hold two image groups, and at most one fault: a directory whose listing
\* raises, or an image group whose decoding raises; no directory is cyclic
Stores ==
    {[zattrs |-> Z, zarray |-> A, multi |-> M, denied |-> D, corrupt |-> K, cyclic |-> {}] :
        Z \in {Y \in SUBSET (Dirs \ {Root}) : Cardinality(Y) <= MaxContainers},
        A \in AtMostOne(Dirs \ {Root}),
        M \in AtMostOne(Dirs \ {Root}),
        D \in AtMostOne(Dirs),
        K \in AtMostOne((Dirs \ {Root}) \X {<<"/">>, <<"/", "0">>, <<"/", "1">>})}

WellFormed(st) ==
    /\ st.multi \subseteq st.zattrs
    /\ \A k \in st.corrupt :
          k[1] \in st.zattrs /\ \E i \in 1..Len(GroupsOf(st, k[1])) : GroupsOf(st, k[1])[i] = k[2]
    /\ st.denied = {} \/ st.corrupt = {}

\* the directory a path leads to: the link "l" of a cyclic directory leads
\* back to that directory, so "l/a" is "a" and "b/d/l/l" is "b/d": the names
\* of the path other than "l", joined by "/"
resolve(path) ==
    LET names == SelectSeq(path, LAMBDA c : c # "/" /\ c # "l")
    IN  [i \in 1..(2 * Len(names) - 1) |-> IF i % 2 = 1 THEN names[(i + 1) \div 2] ELSE "/"]

\* Filestore.get_children: the children of a path as dicts, directories
\* first, then the marker files; a cyclic directory lists the link to itself
\* as one more directory
get_children(st, path) ==
    LET dir == resolve(path)
        names == SubdirNames(dir) \o (IF dir \in st.cyclic THEN <<"l">> ELSE <<>>)
    IN  [i \in 1..Len(names) |->
            [path |-> Join(path, names[i]), name |-> names[i], type |-> "directory"]]
        \o (IF dir \in st.zattrs
            THEN <<[path |-> Join(path, ".zattrs"), name |-> ".zattrs", type |-> "file"]>>
            ELSE <<>>)
        \o (IF dir \in st.zarray
            THEN <<[path |-> Join(path, ".zarray"), name |-> ".zarray", type |-> "file"]>>
            ELSE <<>>)

----------------------------------------------------------------------------
(* agents.yield_images and OmeZarrAgent *)

\* the path components between "/"
RECURSIVE Components(_)
Components(path) ==
    IF path = <<>> THEN {}
    ELSE IF \E i \in 1..Len(path) : path[i] = "/"
         THEN LET i == CHOOSE k \in 1..Len(path) :
                          path[k] = "/" /\ \A j \in 1..(k - 1) : path[j] # "/"
              IN  {SubSeq(path, 1, i - 1)} \cup Components(SubSeq(path, i + 1, Len(path)))
         ELSE {path}

\* PathSpec.from_lines(GitWildMatchPattern, [pattern]).match_file(path) for a
\* pattern that is a plain name: the name is a component of the path
match_file(pattern, path) == <<pattern>> \in Components(path)

\* yield_images, its loop over exclude_paths
excluded(patterns, path) ==
    \E i \in 1..Len(patterns) : match_file(patterns[i], path)

\* a buggy recognizer that does not stop at raw chunk data
walk_no_end(children) ==
    IF \E i \in 1..Len(children) : children[i].name = ".zattrs" THEN "CONTAINER"
    ELSE "CONTINUE"

\* OmeZarrAgent.walk
walk(children) ==
    LET child_names == {children[i].name : i \in 1..Len(children)}
    IN  IF ".zattrs" \in child_names THEN "CONTAINER"
        ELSE IF ".zarray" \in child_names THEN "END"
        ELSE "CONTINUE"

\* a buggy recursion that hands its own depth to the calls for the children
recurse_same_depth(children, depth) ==
    LET dirs == SelectSeq(children, LAMBDA c : c.type = "directory")
    IN  [i \in 1..Len(dirs) |-> [path |-> dirs[i].path, depth |-> depth]]

\* yield_images, the yield_images calls of its last loop: one for each child
\* directory, in listing order, at depth + 1
recurse(children, depth) ==
    LET dirs == SelectSeq(children, LAMBDA c : c.type = "directory")
    IN  [i \in 1..Len(dirs) |-> [path |-> dirs[i].path, depth |-> depth + 1]]

\* _encode_image, reduced to the group_path of the Image it returns
encode_image(group_name) == Image(group_name, 1)

\* the metadata ids persist_images loaded when the run began
RunMetadataIds == get_path_to_metadata_id_map(image_metadata, 1)

\* yield_images(path, depth) with depth > maxdepth: return
WalkTooDeep ==
    /\ status = "running" /\ decoding = <<>> /\ todo # <<>>
    /\ todo[1].depth > maxdepth
    /\ todo' = Tail(todo)
    /\ UNCHANGED <<agents, asked, hierarchy, store, exclude_paths, maxdepth, decoding, listed, answers, yielded,
                   logged, status, run_count>>
    /\ UNCHANGED <<catalogVars, pg, qry, schemaVars>>

\* a buggy walker that lists a path before it checks the exclusions
WalkExcludedAfterListing ==
    /\ status = "running" /\ decoding = <<>> /\ todo # <<>>
    /\ todo[1].depth <= maxdepth
    /\ excluded(exclude_paths, todo[1].path)
    /\ listed' = listed \cup {todo[1].path}
    /\ todo' = Tail(todo)
    /\ UNCHANGED <<agents, asked, hierarchy, store, exclude_paths, maxdepth, decoding, answers, yielded,
                   logged, status, run_count>>
    /\ UNCHANGED <<catalogVars, pg, qry, schemaVars>>

\* yield_images(path, depth) of a path an exclusion pattern matches: return
WalkExcluded ==
    /\ status = "running" /\ decoding = <<>> /\ todo # <<>>
    /\ todo[1].depth <= maxdepth
    /\ excluded(exclude_paths, todo[1].path)
    /\ todo' = Tail(todo)
    /\ UNCHANGED <<agents, asked, hierarchy, store, exclude_paths, maxdepth, decoding, listed, answers, yielded,
                   logged, status, run_count>>
    /\ UNCHANGED <<catalogVars, pg, qry, schemaVars>>

\* yield_images(path, depth) where fs.get_children raises: nothing catches
\* the exception, it leaves every enclosing yield_images and persist_images
WalkListRaises ==
    /\ status = "running" /\ decoding = <<>> /\ todo # <<>>
    /\ todo[1].depth <= maxdepth
    /\ ~excluded(exclude_paths, todo[1].path)
    /\ todo[1].path \in store.denied
    /\ listed' = listed \cup {todo[1].path}
    /\ todo' = <<>>
    /\ status' = "raised"
    /\ UNCHANGED <<agents, asked, hierarchy, store, exclude_paths, maxdepth, decoding, answers, yielded,
                   logged, run_count>>
    /\ UNCHANGED <<catalogVars, pg, qry, schemaVars>>

\* the Agent protocol: OmeZarrAgent, whose walk reads the children, and
\* agents of other formats, whose walk is given as a table path -> WalkResult
OmeZarrAgent == [class |-> "OmeZarrAgent", table |-> <<>>]

TableAgent(table) == [class |-> "TableAgent", table |-> table]

\* agent.walk(fs, path, children)
agent_walk(agent, path, children) ==
    IF agent.class = "OmeZarrAgent" THEN walk(children) ELSE agent.table[path]

\* a buggy loop over the agents in which the last agent that recognizes the
\* path decides
last_match(results) ==
    IF \E i \in 1..Len(results) : results[i] # "CONTINUE"
    THEN CHOOSE i \in 1..Len(results) :
            results[i] # "CONTINUE" /\ \A j \in (i + 1)..Len(results) : results[j] = "CONTINUE"
    ELSE 0

\* yield_images, its loop over the agents: the position of the agent at which
\* the loop returns, the first one whose walk answers CONTAINER or END; 0
\* when the loop runs to its end
first_match(results) ==
    IF \E i \in 1..Len(results) : results[i] # "CONTINUE"
    THEN CHOOSE i \in 1..Len(results) :
            results[i] # "CONTINUE" /\ \A j \in 1..(i - 1) : results[j] = "CONTINUE"
    ELSE 0

\* yield_images(path, depth) of a listed path: the agents are asked in order
\* up to the first that answers CONTAINER or END; on CONTAINER that agent's
\* yield_images is called, on END the call returns, and when every agent
\* answered CONTINUE the calls for the child directories follow
WalkVisit ==
    /\ status = "running" /\ decoding = <<>> /\ todo # <<>>
    /\ todo[1].depth <= maxdepth
    /\ ~excluded(exclude_paths, todo[1].path)
    /\ todo[1].path \notin store.denied
    /\ LET path == todo[1].path
           children == get_children(store, path)
           results == [i \in 1..Len(agents) |-> agent_walk(agents[i], path, children)]
           k == first_match(results)
           result == IF k = 0 THEN "CONTINUE" ELSE results[k]
           walks == [i \in 1..(IF k = 0 THEN Len(agents) ELSE k) |->
                        [call |-> "walk", agent |-> i, path |-> path, result |-> results[i]]]
       IN  /\ listed' = listed \cup {path}
           /\ answers' = answers \cup {<<path, walks[i].result>> : i \in 1..Len(walks)}
           /\ asked' = asked \o walks \o
                        (IF result = "CONTAINER"
                         THEN <<[call |-> "yield_images", agent |-> k, path |-> path,
                                 result |-> result]>>
                         ELSE <<>>)
           /\ decoding' = IF result = "CONTAINER"
                          THEN <<[path |-> path, groups |-> GroupsOf(store, path)]>>
                          ELSE <<>>
           /\ todo' = IF result = "CONTINUE"
                      THEN recurse(children, todo[1].depth) \o Tail(todo)
                      ELSE Tail(todo)
    /\ UNCHANGED <<agents, hierarchy, store, exclude_paths, maxdepth, yielded, logged, status, run_count>>
    /\ UNCHANGED <<catalogVars, pg, qry, schemaVars>>

\* OmeZarrAgent.yield_images: the next image group is encoded and yielded, and
\* the body of persist_images' loop runs for it
DecodeYield ==
    /\ status = "running" /\ decoding # <<>>
    /\ LET path == decoding[1].path
           group == decoding[1].groups[1]
           image == encode_image(group)
           step == persist_one(images, 1, RunMetadataIds, path, image, FALSE)
       IN  /\ <<path, group>> \notin store.corrupt
           /\ yielded' = Append(yielded, <<path, image>>)
           /\ images' = step.images
           /\ run_count' = run_count + step.persisted
           /\ decoding' = IF Len(decoding[1].groups) = 1 THEN <<>>
                          ELSE <<[decoding[1] EXCEPT !.groups = Tail(@)]>>
    /\ UNCHANGED <<agents, asked, hierarchy, store, exclude_paths, maxdepth, todo, listed, answers, logged, status>>
    /\ UNCHANGED <<collections, collection_map, image_metadata, last, source, pg, qry, schemaVars>>

\* a buggy agent without logger.catch: the exception leaves the walk
DecodeRaisesUncaught ==
    /\ status = "running" /\ decoding # <<>>
    /\ <<decoding[1].path, decoding[1].groups[1]>> \in store.corrupt
    /\ decoding' = <<>>
    /\ todo' = <<>>
    /\ status' = "raised"
    /\ UNCHANGED <<agents, asked, hierarchy, store, exclude_paths, maxdepth, listed, answers, yielded, logged,
                   run_count>>
    /\ UNCHANGED <<catalogVars, pg, qry, schemaVars>>

\* OmeZarrAgent.yield_images: _encode_image raises, logger.catch logs the
\* exception and swallows it, and the agent's generator ends
DecodeRaises ==
    /\ status = "running" /\ decoding # <<>>
    /\ <<decoding[1].path, decoding[1].groups[1]>> \in store.corrupt
    /\ logged' = logged + 1
    /\ decoding' = <<>>
    /\ UNCHANGED <<agents, asked, hierarchy, store, exclude_paths, maxdepth, todo, listed, answers, yielded,
                   status, run_count>>
    /\ UNCHANGED <<catalogVars, pg, qry, schemaVars>>

\* the generator is exhausted: persist_images returns count
WalkReturn ==
    /\ status = "running" /\ decoding = <<>> /\ todo = <<>>
    /\ status' = "returned"
    /\ UNCHANGED <<agents, asked, hierarchy, store, exclude_paths, maxdepth, todo, decoding, listed, answers,
                   yielded, logged, run_count>>
    /\ UNCHANGED <<catalogVars, pg, qry, schemaVars>>

----------------------------------------------------------------------------
(* SpecWalk: persist_images(collection, partial(yield_images, fs, agents=  *)
(* [OmeZarrAgent()], exclude_paths=...)) over every store                  *)

ExcludeLists == {<<>>, <<"a">>, <<"d">>}

MaxDepths == {1, 2}

\* collection "c1" exists, no metadata, and the run begins at the store's root
InitWalk ==
    /\ collections = {[id |-> 1, name |-> "c1", settings_path |-> "s1"]}
    /\ collection_map = [n \in {"c1"} |-> [id |-> 1, name |-> "c1", settings_path |-> "s1"]]
    /\ image_metadata = {}
    /\ images = {}
    /\ last = NoCall
    /\ source = <<>>
    /\ pg = NoPage
    /\ NoColumns
    /\ qry = NoQuery
    /\ agents = <<OmeZarrAgent>>
    /\ asked = <<>>
    /\ hierarchy = NoHierarchy
    /\ store \in {st \in Stores : WellFormed(st)}
    /\ exclude_paths \in ExcludeLists
    /\ maxdepth \in MaxDepths
    /\ todo = <<[path |-> Root, depth |-> 0]>>
    /\ decoding = <<>>
    /\ listed = {}
    /\ answers = {}
    /\ yielded = <<>>
    /\ logged = 0
    /\ status = "running"
    /\ run_count = 0

NextWalk ==
    \/ WalkTooDeep
    \/ WalkExcluded
    \/ WalkListRaises
    \/ WalkVisit
    \/ DecodeYield
    \/ DecodeRaises
    \/ WalkReturn

SpecWalk == InitWalk /\ [][NextWalk]_vars

----------------------------------------------------------------------------
(* Claims about the walk *)

\* p is q or lies beneath q in the directory tree
Beneath(p, q) ==
    \/ p = q
    \/ q = Root
    \/ Len(p) > Len(q) /\ SubSeq(p, 1, Len(q) + 1) = q \o <<"/">>

Ancestors(p) == {q \in Dirs : q # p /\ Beneath(p, q)}

\* the number of directories between the root and p
DepthOf(p) == Cardinality(Ancestors(p))

\* some exclusion pattern matches p
Matches(p) == \E i \in 1..Len(exclude_paths) : match_file(exclude_paths[i], p)

YieldedPaths == {yielded[i][1] : i \in 1..Len(yielded)}

Answered(p) == \E r \in {"CONTAINER", "END", "CONTINUE"} : <<p, r>> \in answers

\* C4: a path that matches an exclusion pattern is never listed, and neither
\* it nor a path beneath it is handed to a recognizer or yields an image,
\* whatever its children are.
C4_ExclusionPrecedence ==
    \A q \in Dirs : Matches(q) =>
        /\ q \notin listed
        /\ \A p \in Dirs : Beneath(p, q) =>
              /\ ~Answered(p)
              /\ p \notin YieldedPaths

\* a finished walk that passed over an excluded container with a container
\* beneath it, and yielded images of another branch
C4_Witness ==
    /\ status = "returned"
    /\ exclude_paths = <<"a">>
    /\ {<<"a">>, <<"a", "/", "d">>} \subseteq store.zattrs
    /\ Root \in listed
    /\ <<"b">> \in YieldedPaths

\* C5: a visited path whose children include '.zarray' but not '.zattrs' is
\* answered END, yields no image, and none of its descendants is listed.
C5_EndStopsBranch ==
    \A p \in Dirs :
        (p \in store.zarray /\ p \notin store.zattrs /\ p \in listed /\ p \notin store.denied) =>
            /\ <<p, "END">> \in answers
            /\ <<p, "CONTAINER">> \notin answers
            /\ <<p, "CONTINUE">> \notin answers
            /\ p \notin YieldedPaths
            /\ \A d \in Dirs : (d # p /\ Beneath(d, p)) => d \notin listed /\ d \notin YieldedPaths

\* a finished walk that met raw chunk data at "a", above a container, and went
\* on to the sibling "b"
C5_Witness ==
    /\ status = "returned"
    /\ <<"a">> \in store.zarray
    /\ <<"a">> \notin store.zattrs
    /\ <<"a", "/", "d">> \in store.zattrs
    /\ <<<<"a">>, "END">> \in answers
    /\ <<"b">> \in listed
    /\ maxdepth = 2

\* the walk reaches p: p is within maxdepth, no exclusion pattern matches it or
\* a directory above it, and no directory above it holds .zattrs or .zarray
Discoverable(p) ==
    /\ DepthOf(p) <= maxdepth
    /\ \A q \in Ancestors(p) \cup {p} : ~Matches(q)
    /\ \A q \in Ancestors(p) : q \notin store.zattrs /\ q \notin store.zarray

CorruptContainers == {k[1] : k \in store.corrupt}

ExpectedContainers == {p \in store.zattrs : Discoverable(p)}

\* the image groups of the containers the walk reaches and can decode
ExpectedImages ==
    {<<p, g>> : p \in ExpectedContainers \ CorruptContainers, g \in {<<"/">>, <<"/", "0">>, <<"/", "1">>}}
    \cap {<<p, g>> \in Dirs \X {<<"/">>, <<"/", "0">>, <<"/", "1">>} :
            \E i \in 1..Len(GroupsOf(store, p)) : GroupsOf(store, p)[i] = g}

IsYielded(p, g) == \E i \in 1..Len(yielded) : yielded[i][1] = p /\ yielded[i][2].group_path = g

IsPersisted(p, g) ==
    \E r \in images : r.collection_id = 1 /\ r.image_path = p \o g /\ r.path = p /\ r.group_path = g

\* C6: a container whose decoding raises does not end the run: when every
\* listing succeeds persist_images returns, every image of the other
\* containers the walk reaches is yielded and persisted, one failure is logged
\* for each corrupt container reached, and the count is the number of images
\* persisted.
C6_DecodeFailureContinues ==
    store.denied = {} =>
        /\ status # "raised"
        /\ status = "returned" =>
              /\ \A e \in ExpectedImages : IsYielded(e[1], e[2]) /\ IsPersisted(e[1], e[2])
              /\ logged = Cardinality(CorruptContainers \cap ExpectedContainers)
              /\ run_count = Len(yielded)
              /\ Cardinality(images) = run_count

\* two valid containers and a corrupt one between them: 2 images persisted,
\* one failure logged
C6_Witness ==
    /\ status = "returned"
    /\ store.zattrs = {<<"a", "/", "d">>, <<"a", "/", "e">>, <<"b", "/", "d">>}
    /\ store.corrupt = {<<<<"a", "/", "e">>, <<"/">>>>}
    /\ logged = 1
    /\ run_count = 2
    /\ Cardinality(images) = 2
    /\ IsPersisted(<<"a", "/", "d">>, <<"/">>)
    /\ IsPersisted(<<"b", "/", "d">>, <<"/">>)

\* the containers the walk reaches without passing the directory whose
\* listing fails
OutsideDenied ==
    {p \in ExpectedContainers : \A q \in store.denied : ~Beneath(p, q)}

\* C7: a listing that raises does not abort the walk: the run never ends by
\* the exception, and a finished run has yielded the containers of all other
\* branches.
C7_ListingFailureSkipsBranch ==
    /\ status # "raised"
    /\ status = "returned" => \A p \in OutsideDenied \ CorruptContainers : p \in YieldedPaths

\* C11: for every call get_dbimages accepts (page >= 0, page_size >= 0, the
\* unbounded page_size = 0 included), whenever at least one image is returned
\* start_num >= 1, end_num <= total_count and end_num - start_num + 1 is the
\* number of images returned.
C11_ItemNumbers ==
    (pg.op = "get_dbimages" /\ ~pg.raised /\ Len(pg.images) > 0) =>
        /\ pg.pagination.start_num >= 1
        /\ pg.pagination.end_num <= pg.pagination.total_count
        /\ pg.pagination.end_num - pg.pagination.start_num + 1 = Len(pg.images)

----------------------------------------------------------------------------
(* Database.add_metadata_column, Database.delete_collection *)

\* largest row id the collections table is let to reach
MaxCollectionId == 3

\* largest row id the metadata_columns table is let to reach
MaxColumnId == 3

\* the settings paths (origins) a collection is added with
Origins == {"s1", "s2"}

\* the labels the dynamic columns stand for
OriginalNames == {"Label 1", "Label 2"}

\* Database.load, its column_map: collection id -> db_name -> original_name,
\* read from the rows of metadata_columns
load_column_map(rows) ==
    [cid \in {r.collection_id : r \in rows} |->
        [d \in {r.db_name : r \in {q \in rows : q.collection_id = cid}} |->
            (CHOOSE r \in rows : r.collection_id = cid /\ r.db_name = d).original_name]]

\* Database.load, its reverse_column_map: collection id -> original_name ->
\* db_name, the rows read in id order, a later row of the same label
\* overwriting an earlier one
load_reverse_column_map(rows) ==
    [cid \in {r.collection_id : r \in rows} |->
        [o \in {r.original_name : r \in {q \in rows : q.collection_id = cid}} |->
            (CHOOSE r \in rows :
                /\ r.collection_id = cid /\ r.original_name = o
                /\ \A q \in rows : (q.collection_id = cid /\ q.original_name = o) => q.id <= r.id
            ).db_name]]

\* Database.load, its collection_map: name -> row
load_collection_map(rows) ==
    [n \in {r.name : r \in rows} |-> CHOOSE r \in rows : r.name = n]

\* collection_id in self.column_map and db_name in self.column_map[collection_id]
has_column(cmap, collection_id, db_name) ==
    collection_id \in DOMAIN cmap /\ db_name \in DOMAIN cmap[collection_id]

\* a buggy add_metadata_column that does not look for the registered column
add_metadata_column_unchecked(cols, cmap, collection_id, db_name, original_name) ==
    cols \cup {[id |-> NextId(cols), db_name |-> db_name,
                original_name |-> original_name, collection_id |-> collection_id]}

\* The metadata_columns table after add_metadata_column
add_metadata_column(cols, cmap, collection_id, db_name, original_name) ==
    IF has_column(cmap, collection_id, db_name) THEN cols
    ELSE cols \cup {[id |-> NextId(cols), db_name |-> db_name,
                     original_name |-> original_name, collection_id |-> collection_id]}

\* add_metadata_column(collection_name, db_name, original_name): a registered
\* column returns at once; otherwise the row is inserted and self.load()
\* reads collection_map, column_map and reverse_column_map from the tables
AddMetadataColumn(collection_name, db_name, original_name) ==
    /\ collection_name \in DOMAIN collection_map
    /\ LET collection_id == collection_map[collection_name].id
           cols == add_metadata_column(metadata_columns, column_map, collection_id,
                                       db_name, original_name)
       IN  /\ \A r \in cols : r.id <= MaxColumnId
           /\ metadata_columns' = cols
           /\ IF has_column(column_map, collection_id, db_name)
              THEN UNCHANGED <<collection_map, column_map, reverse_column_map, table_columns>>
              ELSE /\ collection_map' = load_collection_map(collections)
                   /\ column_map' = load_column_map(cols)
                   /\ reverse_column_map' = load_reverse_column_map(cols)
                   /\ table_columns' = table_columns \cup {db_name}
           /\ last' = [NoCall EXCEPT !.op = "add_metadata_column",
                                     !.collection = collection_name,
                                     !.path = <<db_name, original_name>>]
    /\ UNCHANGED <<collections, image_metadata, images, source>>
    /\ UNCHANGED <<pg, qry, walkVars>>

\* a function without the key k
Without(f, k) == [x \in DOMAIN f \ {k} |-> f[x]]

\* delete_collection(collection_name) of an unknown name: ValueError
DeleteCollectionUnknown(collection_name) ==
    /\ collection_name \notin DOMAIN collection_map
    /\ last' = [NoCall EXCEPT !.op = "delete_collection", !.collection = collection_name,
                              !.raised = TRUE]
    /\ UNCHANGED <<collections, collection_map, image_metadata, images, source>>
    /\ UNCHANGED <<pg, qry, schemaVars, walkVars>>

\* a buggy delete_collection that leaves its column maps as they were
DeleteCollectionStaleMaps(collection_name) ==
    /\ collection_name \in DOMAIN collection_map
    /\ LET collection_id == collection_map[collection_name].id
       IN  /\ image_metadata' = {r \in image_metadata : r.collection_id # collection_id}
           /\ metadata_columns' = {r \in metadata_columns : r.collection_id # collection_id}
           /\ collections' = {r \in collections : r.id # collection_id}
           /\ collection_map' = Without(collection_map, collection_name)
           /\ last' = [NoCall EXCEPT !.op = "delete_collection",
                                     !.collection = collection_name,
                                     !.metadata_id = collection_id]
    /\ UNCHANGED <<images, source, table_columns, column_map, reverse_column_map>>
    /\ UNCHANGED <<pg, qry, walkVars>>

\* delete_collection(collection_name): the collection's image_metadata rows,
\* its metadata_columns rows and its collections row are deleted, on SQLite,
\* which does not enforce foreign keys unless asked to; the images table is
\* not written; the collection's entries leave the three maps
DeleteCollection(collection_name) ==
    /\ collection_name \in DOMAIN collection_map
    /\ LET collection_id == collection_map[collection_name].id
       IN  /\ image_metadata' = {r \in image_metadata : r.collection_id # collection_id}
           /\ metadata_columns' = {r \in metadata_columns : r.collection_id # collection_id}
           /\ collections' = {r \in collections : r.id # collection_id}
           /\ column_map' = IF collection_id \in DOMAIN column_map
                            THEN Without(column_map, collection_id)
                            ELSE column_map
           /\ reverse_column_map' = IF collection_id \in DOMAIN reverse_column_map
                                    THEN Without(reverse_column_map, collection_id)
                                    ELSE reverse_column_map
           /\ collection_map' = Without(collection_map, collection_name)
           /\ last' = [NoCall EXCEPT !.op = "delete_collection",
                                     !.collection = collection_name,
                                     !.metadata_id = collection_id]
    /\ UNCHANGED <<images, source, table_columns>>
    /\ UNCHANGED <<pg, qry, walkVars>>

----------------------------------------------------------------------------
(* SpecSchema: collections and their dynamic columns *)

InitSchema ==
    /\ collections = {}
    /\ collection_map = <<>>
    /\ image_metadata = {}
    /\ images = {}
    /\ last = NoCall
    /\ source = <<>>
    /\ pg = NoPage
    /\ WalkIdle
    /\ NoColumns
    /\ qry = NoQuery

NextSchema ==
    \/ \E n \in CollectionNames, s \in Origins :
          NextId(collections) <= MaxCollectionId /\ AddCollectionNew(n, s)
    \/ \E n \in CollectionNames, s \in Origins : AddCollectionKnown(n, s)
    \/ \E n \in CollectionNames, d \in DbNames, o \in OriginalNames :
          AddMetadataColumn(n, d, o)
    \/ \E n \in CollectionNames : DeleteCollection(n)
    \/ \E n \in CollectionNames : DeleteCollectionUnknown(n)

SpecSchema == InitSchema /\ [][NextSchema]_vars

----------------------------------------------------------------------------
(* Claims about add_collection, checked under SpecSchema *)

\* C13: add_collection of a name that exists, with the same origin, raises
\* nothing, returns the existing collection record, and leaves exactly one
\* collection of that name, with the id and origin it had.
C13_ReaddReturnsExisting ==
    [][(/\ last'.op = "add_collection"
        /\ last'.collection \in DOMAIN collection_map
        /\ collection_map[last'.collection].settings_path = last'.settings_path) =>
            /\ ~last'.raised
            /\ last'.returned = {collection_map[last'.collection]}
            /\ collections' = collections
            /\ collection_map' = collection_map
            /\ Cardinality({c \in collections' : c.name = last'.collection}) = 1
    ]_vars

\* C14: add_collection of a name that exists, with another origin, raises and
\* changes nothing: the collections table and the collection map stay as they
\* were.
C14_ConflictingOriginRaises ==
    [][(/\ last'.op = "add_collection"
        /\ last'.collection \in DOMAIN collection_map
        /\ collection_map[last'.collection].settings_path # last'.settings_path) =>
            /\ last'.raised
            /\ last'.returned = {}
            /\ collections' = collections
            /\ collection_map' = collection_map
            /\ \E c \in collections' :
                  /\ c = collection_map[last'.collection]
                  /\ c.settings_path # last'.settings_path
    ]_vars

\* collection "c1" of origin "s1" has just been re-added with origin "s2"
C14_Witness ==
    /\ last.op = "add_collection" /\ last.raised
    /\ last.collection = "c1" /\ last.settings_path = "s2"
    /\ "c1" \in DOMAIN collection_map
    /\ collection_map["c1"].settings_path = "s1"
    /\ Cardinality(collections) = 2

\* C15: add_metadata_column of a (collection, db_name) that is registered
\* raises nothing and changes nothing; the first call for a pair registers
\* db_name -> original_name for the collection; and each (collection, db_name)
\* has exactly one row of metadata_columns.
C15_ColumnRegisteredOnce ==
    [][last'.op = "add_metadata_column" =>
        LET cid == collection_map[last'.collection].id
            db_name == last'.path[1]
            original_name == last'.path[2]
            registered == \E r \in metadata_columns :
                              r.collection_id = cid /\ r.db_name = db_name
        IN  /\ ~last'.raised
            /\ registered => /\ metadata_columns' = metadata_columns
                             /\ column_map' = column_map
            /\ ~registered =>
                  /\ \E r \in metadata_columns' \ metadata_columns :
                        /\ r.collection_id = cid
                        /\ r.db_name = db_name
                        /\ r.original_name = original_name
                        /\ metadata_columns' = metadata_columns \cup {r}
                  /\ column_map'[cid][db_name] = original_name
            /\ \A r, q \in metadata_columns' :
                  (r.collection_id = q.collection_id /\ r.db_name = q.db_name) => r = q
            /\ \A r \in metadata_columns' :
                  column_map'[r.collection_id][r.db_name] = r.original_name
    ]_vars

\* a column registered under one label has just been added again under another
C15_Witness ==
    /\ last.op = "add_metadata_column"
    /\ \E r \in metadata_columns :
          /\ r.collection_id = collection_map[last.collection].id
          /\ r.db_name = last.path[1]
          /\ r.original_name # last.path[2]
    /\ Cardinality(metadata_columns) = 3

----------------------------------------------------------------------------
(* SpecMeta: add_image_metadata batches over two collections *)

\* most rows the image_metadata table is let to grow to under SpecMeta
MaxUpsertRows == 2

\* the values a batch gives a dynamic column: None or "a"
MetaValues == {NoneStr, Str(<<"a">>)}

\* the batches of one row and of two rows
Batches(R) == {<<r>> : r \in R} \cup {<<r, q>> : r \in R, q \in R}

\* the dicts a caller hands to add_image_metadata for a collection: a path
\* and values for some of the collection's registered columns
MetaRows(columns, values) ==
    {[path |-> p, collection_id |-> NULL, cols |-> f] :
        p \in MetaPaths,
        f \in UNION {[D -> values] : D \in SUBSET columns}}

\* the columns registered for a collection
RegisteredColumns(collection_name) ==
    IF collection_map[collection_name].id \in DOMAIN column_map
    THEN DOMAIN column_map[collection_map[collection_name].id]
    ELSE {}

InitMeta ==
    /\ collections = {}
    /\ collection_map = <<>>
    /\ image_metadata = {}
    /\ images = {}
    /\ last = NoCall
    /\ source = <<>>
    /\ pg = NoPage
    /\ WalkIdle
    /\ NoColumns
    /\ qry = NoQuery

NextMeta ==
    \/ \E n \in CollectionNames : AddCollectionNew(n, "s1")
    \/ AddMetadataColumn("c1", "d1", "Label 1")
    \/ \E n \in DOMAIN collection_map :
          \E rows \in Batches(MetaRows(RegisteredColumns(n), MetaValues)) :
              AddImageMetadata(n, rows) /\ Cardinality(image_metadata') <= MaxUpsertRows

SpecMeta == InitMeta /\ [][NextMeta]_vars

\* the value a column of a (collection, path) has after a batch: that of the
\* last row of the batch that gives the column one, else the one it had, else NULL
ValueAfter(before, rows, path, c) ==
    LET giving == {i \in 1..Len(rows) : rows[i].path = path /\ c \in DOMAIN rows[i].cols}
    IN  IF giving # {}
        THEN rows[CHOOSE i \in giving : \A j \in giving : j <= i].cols[c]
        ELSE IF before # {} THEN (CHOOSE r \in before : TRUE).cols[c]
        ELSE NoneStr

\* C16: after add_image_metadata there is one Metadata row for each
\* (collection, path); a row of the batch whose (collection, path) exists
\* updates the stored row, keeping its id, the other rows of the batch are
\* applied too, the rows of no batch path are untouched, and the call returns
\* the number of rows inserted and the number updated.
C16_MetadataUpsert ==
    [][last'.op = "add_image_metadata" =>
        LET cid == collection_map[last'.collection].id
            rows == last'.rows
            paths == {rows[i].path : i \in 1..Len(rows)}
            known == {p \in paths : \E r \in image_metadata :
                                       r.collection_id = cid /\ r.path = p}
            touched(M) == {r \in M : r.collection_id = cid /\ r.path \in paths}
        IN  /\ \A r, q \in image_metadata' :
                  (r.collection_id = q.collection_id /\ r.path = q.path) => r = q
            /\ \A p \in paths : \E r \in image_metadata' :
                  /\ r.collection_id = cid /\ r.path = p
                  /\ \A c \in DbNames :
                        r.cols[c] = ValueAfter({b \in image_metadata :
                                                   b.collection_id = cid /\ b.path = p},
                                               rows, p, c)
                  /\ \A b \in image_metadata :
                        (b.collection_id = cid /\ b.path = p) => b.id = r.id
            /\ image_metadata' \ touched(image_metadata') = image_metadata \ touched(image_metadata)
            /\ Cardinality(image_metadata') = Cardinality(image_metadata)
                                                + Cardinality(paths \ known)
            /\ last'.returned = {<<Cardinality(paths \ known),
                                   Len(rows) - Cardinality(paths \ known)>>}
    ]_vars

\* a batch of two rows has just been applied to a table that held one of
\* them: one row was inserted, one updated to a new value
C16_Witness ==
    /\ last.op = "add_image_metadata"
    /\ Len(last.rows) = 2
    /\ last.returned = {<<1, 1>>}
    /\ last.rows[1].path # last.rows[2].path
    /\ \E r \in image_metadata : r.id = 1 /\ r.cols["d1"] = Str(<<"a">>)
    /\ last.rows[1].cols = <<>>
    /\ Cardinality(image_metadata) = 2

----------------------------------------------------------------------------
(* SpecDelete: collections with metadata and images, and delete_collection *)

\* largest row id the image_metadata table is let to reach
MaxMetaId == 3

\* a source producing the image "/0" of container "a"
OneImage == << <<(<<"a">>), Image(<<"/", "0">>, 1)>> >>

InitDelete ==
    /\ collections = {}
    /\ collection_map = <<>>
    /\ image_metadata = {}
    /\ images = {}
    /\ last = NoCall
    /\ source = OneImage
    /\ pg = NoPage
    /\ WalkIdle
    /\ NoColumns
    /\ qry = NoQuery

NextDelete ==
    \/ \E n \in CollectionNames :
          NextId(collections) <= MaxCollectionId /\ AddCollectionNew(n, "s1")
    \/ AddMetadataColumn("c1", "d1", "Label 1")
    \/ /\ AddImageMetadata("c1", <<[path |-> <<"a">>, collection_id |-> NULL, cols |-> <<>>]>>)
       /\ \A r \in image_metadata' : r.id <= MaxMetaId
    \/ PersistImages("c1", FALSE)
    \/ \E n \in CollectionNames : DeleteCollection(n)
    \/ \E n \in CollectionNames : DeleteCollectionUnknown(n)

SpecDelete == InitDelete /\ [][NextDelete]_vars

\* C17: delete_collection(name) removes the collection with all of its
\* Metadata rows, Metadata Columns and Image records: afterwards no row of
\* collections, metadata_columns, image_metadata or images has the deleted
\* collection's id.
C17_DeleteCascades ==
    [][(last'.op = "delete_collection" /\ ~last'.raised) =>
        LET cid == collection_map[last'.collection].id
        IN  /\ \A r \in collections' : r.id # cid
            /\ \A r \in metadata_columns' : r.collection_id # cid
            /\ \A r \in image_metadata' : r.collection_id # cid
            /\ \A r \in images' : r.collection_id # cid
    ]_vars

\* C18: the metadata link of every Image record is null or the id of a
\* Metadata row of the table: deleting Metadata rows sets the links to them
\* to null.
C18_NoDanglingLink ==
    \A r \in images :
        r.image_metadata_id = NULL \/ \E m \in image_metadata : m.id = r.image_metadata_id

----------------------------------------------------------------------------
(* Database.get_unique_values, Database.get_unique_comma_delimited_values *)

\* Python's str() of a column value: "None" for None
str(value) == IF value = NoneStr THEN <<"N", "o", "n", "e">> ELSE value[1]

\* the sum of f over a finite set
RECURSIVE SumOver(_, _)
SumOver(S, f) ==
    IF S = {} THEN 0
    ELSE LET x == CHOOSE y \in S : TRUE
         IN  f[x] + SumOver(S \ {x}, f)

\* get_unique_values: the GROUP BY of the column over the collection's rows,
\* NULLs being one group, then {str(row[0]): int(row[1])}; 'None in
\* value_counts' is never true of these string keys, so nothing is deleted.
\* When the group of NULL and a group of the text "None" share a key the
\* later one in GROUP BY order, the text, is kept.
get_unique_values(meta, collection_id, column_name) ==
    LET rows == {r \in meta : r.collection_id = collection_id}
        groups == {r.cols[column_name] : r \in rows}
        count(g) == Cardinality({r \in rows : r.cols[column_name] = g})
        kept(k) == IF \E g \in groups : g # NoneStr /\ str(g) = k
                   THEN CHOOSE g \in groups : g # NoneStr /\ str(g) = k
                   ELSE NoneStr
    IN  [k \in {str(g) : g \in groups} |-> count(kept(k))]

\* str.split(','): the pieces between the commas
RECURSIVE split(_)
split(s) ==
    IF \E i \in 1..Len(s) : s[i] = ","
    THEN LET i == CHOOSE k \in 1..Len(s) : s[k] = "," /\ \A j \in 1..(k - 1) : s[j] # ","
         IN  <<SubSeq(s, 1, i - 1)>> \o split(SubSeq(s, i + 1, Len(s)))
    ELSE <<s>>

\* str.strip(): without the leading and trailing blanks
RECURSIVE strip(_)
strip(s) ==
    IF s = <<>> THEN s
    ELSE IF s[1] = " " THEN strip(Tail(s))
    ELSE IF s[Len(s)] = " " THEN strip(SubSeq(s, 1, Len(s) - 1))
    ELSE s

\* buggy items of a value: the pieces as they are, blanks kept
items_unstripped(value) ==
    IF value = NoneStr \/ value = Str(<<>>) THEN <<>>
    ELSE split(value[1])

\* the items the loop counts for one value: none for None and '', else the
\* stripped pieces of value.split(',')
items(value) ==
    IF value = NoneStr \/ value = Str(<<>>) THEN <<>>
    ELSE [i \in 1..Len(split(value[1])) |-> strip(split(value[1])[i])]

\* get_unique_comma_delimited_values: value_counts[item] += 1 for each item of
\* each value of the column among the collection's rows
get_unique_comma_delimited_values(meta, collection_id, column_name) ==
    LET rows == {r \in meta : r.collection_id = collection_id}
        its(r) == items(r.cols[column_name])
        keys == UNION {{its(r)[i] : i \in 1..Len(its(r))} : r \in rows}
    IN  [k \in keys |->
            SumOver(rows, [r \in rows |-> Cardinality({i \in 1..Len(its(r)) : its(r)[i] = k})])]

\* get_unique_values(collection_name, column_name)
GetUniqueValues(collection_name, column_name) ==
    /\ collection_name \in DOMAIN collection_map
    /\ column_name \in table_columns
    /\ qry' = [op |-> "get_unique_values", collection |-> collection_name,
               column |-> column_name,
               result |-> get_unique_values(image_metadata,
                                            collection_map[collection_name].id, column_name)]
    /\ UNCHANGED <<catalogVars, pg, schemaVars, walkVars>>

\* get_unique_comma_delimited_values(collection_name, column_name)
GetUniqueCommaDelimitedValues(collection_name, column_name) ==
    /\ collection_name \in DOMAIN collection_map
    /\ column_name \in table_columns
    /\ qry' = [op |-> "get_unique_comma_delimited_values", collection |-> collection_name,
               column |-> column_name,
               result |-> get_unique_comma_delimited_values(
                              image_metadata, collection_map[collection_name].id, column_name)]
    /\ UNCHANGED <<catalogVars, pg, schemaVars, walkVars>>

----------------------------------------------------------------------------
(* SpecFacet: the two value-count queries over every small metadata table *)

\* the paths of the Metadata rows of collection "c1", in the order they were added
FacetPaths == << <<"a">>, <<"b">>, <<"c">> >>

\* the values of column d1: NULL, '', 'a', 'a,b', 'a,c', ' a'
FacetValues ==
    {NoneStr, Str(<<>>), Str(<<"a">>), Str(<<"a", ",", "b">>), Str(<<"a", ",", "c">>),
     Str(<<" ", "a">>)}

\* the rows add_image_metadata has made of the dicts {path, d1} given for some
\* of the paths, ids in the order of insertion, from first_id on
FacetRows(collection_id, first_id, present, value) ==
    {[id |-> first_id + Cardinality({j \in present : j < i}),
      collection_id |-> collection_id,
      path |-> FacetPaths[i],
      cols |-> [c \in DbNames |-> IF c = "d1" THEN value[i] ELSE NoneStr]] : i \in present}

\* collections "c1" and "c2" with column d1 registered for both, and the
\* Metadata rows of "c1" for some of the paths and of "c2" for path "a"
InitFacet ==
    /\ collections = {[id |-> 1, name |-> "c1", settings_path |-> "s1"],
                      [id |-> 2, name |-> "c2", settings_path |-> "s1"]}
    /\ collection_map = [n \in {"c1", "c2"} |->
                            [id |-> IF n = "c1" THEN 1 ELSE 2, name |-> n,
                             settings_path |-> "s1"]]
    /\ metadata_columns = {[id |-> i, db_name |-> "d1", original_name |-> "Label 1",
                            collection_id |-> i] : i \in {1, 2}}
    /\ column_map = load_column_map(metadata_columns)
    /\ reverse_column_map = load_reverse_column_map(metadata_columns)
    /\ table_columns = {"d1"}
    /\ \E P \in SUBSET (1..Len(FacetPaths)), Q \in SUBSET {1} :
          \E f \in [P -> FacetValues], g \in [Q -> {NoneStr, Str(<<"a">>)}] :
              image_metadata = FacetRows(1, 1, P, f)
                                  \cup FacetRows(2, 1 + Cardinality(P), Q, g)
    /\ images = {}
    /\ last = NoCall
    /\ source = <<>>
    /\ pg = NoPage
    /\ WalkIdle
    /\ qry = NoQuery

NextFacet ==
    \/ \E n \in CollectionNames : GetUniqueValues(n, "d1")
    \/ \E n \in CollectionNames : GetUniqueCommaDelimitedValues(n, "d1")

SpecFacet == InitFacet /\ [][NextFacet]_vars

\* the Metadata rows of the collection of the last query
QueriedRows == {r \in image_metadata : r.collection_id = collection_map[qry.collection].id}

\* C19: get_unique_values returns a map that has, for each distinct non-null
\* value of the column among the collection's Metadata rows, the number of
\* rows holding it, and no entry for the rows whose value is null.
C19_UniqueValueCounts ==
    qry.op = "get_unique_values" =>
        LET values == {r.cols[qry.column] : r \in QueriedRows} \ {NoneStr}
        IN  /\ DOMAIN qry.result = {v[1] : v \in values}
            /\ \A v \in values :
                  qry.result[v[1]] = Cardinality({r \in QueriedRows : r.cols[qry.column] = v})

\* the pieces of s between commas, as pairs (first, last) of positions
Segments(s) ==
    {seg \in (1..(Len(s) + 1)) \X (0..Len(s)) :
        /\ seg[2] >= seg[1] - 1
        /\ seg[1] = 1 \/ s[seg[1] - 1] = ","
        /\ seg[2] = Len(s) \/ s[seg[2] + 1] = ","
        /\ \A j \in seg[1]..seg[2] : s[j] # ","}

\* x from its first to its last character that is not a blank
Trim(x) ==
    LET inked == {i \in 1..Len(x) : x[i] # " "}
    IN  IF inked = {} THEN <<>>
        ELSE SubSeq(x, CHOOSE i \in inked : \A j \in inked : i <= j,
                       CHOOSE i \in inked : \A j \in inked : j <= i)

\* the occurrences of tokens in the column of the queried rows: (row, piece) pairs
Occurrences ==
    UNION {{<<r, seg>> : seg \in Segments(r.cols[qry.column][1])} :
              r \in {q \in QueriedRows : /\ q.cols[qry.column] # NoneStr
                                          /\ q.cols[qry.column] # Str(<<>>)}}

TokenAt(o) == Trim(SubSeq(o[1].cols[qry.column][1], o[2][1], o[2][2]))

\* C20: get_unique_comma_delimited_values splits every non-empty value of the
\* column on commas, trims each piece, and returns for each token the number
\* of its occurrences over the collection's Metadata rows, counted per
\* occurrence and not per row.
C20_TokenCounts ==
    qry.op = "get_unique_comma_delimited_values" =>
        /\ DOMAIN qry.result = {TokenAt(o) : o \in Occurrences}
        /\ \A t \in DOMAIN qry.result :
              qry.result[t] = Cardinality({o \in Occurrences : TokenAt(o) = t})

\* the values "a", "a,b" and "a,c" give a: 3, b: 1, c: 1
C20_Witness ==
    /\ qry.op = "get_unique_comma_delimited_values"
    /\ qry.collection = "c1"
    /\ {r.cols["d1"] : r \in QueriedRows}
          = {Str(<<"a">>), Str(<<"a", ",", "b">>), Str(<<"a", ",", "c">>)}
    /\ Cardinality(QueriedRows) = 3
    /\ DOMAIN qry.result = {<<"a">>, <<"b">>, <<"c">>}
    /\ qry.result[<<"a">>] = 3
    /\ qry.result[<<"b">>] = 1
    /\ qry.result[<<"c">>] = 1

----------------------------------------------------------------------------
(* Database.get_dbimages, its query *)

\* the lower-case form of a character, as LIKE folds ASCII letters
lower(c) == CASE c = "A" -> "a" [] c = "B" -> "b" [] OTHER -> c

\* SQL's LIKE: in the pattern '%' stands for any run of characters and '_'
\* for any one character; letters match without regard to case
RECURSIVE like(_, _)
like(pattern, text) ==
    IF pattern = <<>> THEN text = <<>>
    ELSE IF pattern[1] = "%"
         THEN like(Tail(pattern), text) \/ (text # <<>> /\ like(pattern, Tail(text)))
    ELSE /\ text # <<>>
         /\ pattern[1] = "_" \/ lower(pattern[1]) = lower(text[1])
         /\ like(Tail(pattern), Tail(text))

\* column.ilike(f'%{s}%') of a nullable column value: NULL matches nothing
ilike(value, s) ==
    value # NoneStr /\ like(<<"%">> \o s \o <<"%">>, value[1])

\* the row of image_metadata the outer join gives an image, if any
joined(meta, image) == {m \in meta : m.id = image.image_metadata_id}

\* getattr(DBImageMetadata, column) of an image's joined row: NULL when the
\* image has no row
joined_value(meta, image, column) ==
    IF joined(meta, image) = {} THEN NoneStr
    ELSE (CHOOSE m \in joined(meta, image) : TRUE).cols[column]

\* "None", the filter value that asks for a null column
NoneText == <<"N", "o", "n", "e">>

\* get_dbimages up to 'Count total results': the images the filtered query
\* matches. collection "" stands for no collection given.
query_images(imgs, meta, cmap, tcols, cols_by_name, collection, search_string, filter_params) ==
    LET collection_id == IF collection # "" THEN cols_by_name[collection].id ELSE NULL
        in_collection(r) == collection = "" \/ r.collection_id = collection_id
        searched == IF collection_id # NULL /\ collection_id \in DOMAIN cmap
                    THEN DOMAIN cmap[collection_id]
                    ELSE {}
        found(r) == \/ search_string = <<>>
                    \/ ilike(Str(r.path), search_string)
                    \/ \E c \in searched : ilike(joined_value(meta, r, c), search_string)
        filtering == /\ DOMAIN filter_params # {}
                     /\ collection_id # NULL
                     /\ collection_id \in DOMAIN cmap
        applies(c) == c \in DOMAIN cmap[collection_id] \/ c \in tcols
        passes(r) ==
            ~filtering \/
            \A c \in DOMAIN filter_params :
                applies(c) =>
                    IF filter_params[c] = NoneText THEN joined_value(meta, r, c) = NoneStr
                    ELSE IF filter_params[c] # <<>>
                         THEN ilike(joined_value(meta, r, c), filter_params[c])
                    ELSE TRUE
    IN  {r \in imgs : in_collection(r) /\ found(r) /\ passes(r)}

\* the rows of a table in the order of their ids
RECURSIVE by_id(_)
by_id(rows) ==
    IF rows = {} THEN <<>>
    ELSE LET first == CHOOSE r \in rows : \A q \in rows : r.id <= q.id
         IN  <<first>> \o by_id(rows \ {first})

\* get_dbimages(collection, search_string, filter_params), page and page_size
\* left at their defaults
GetDbimagesSearch(collection, search_string, filter_params) ==
    /\ collection = "" \/ collection \in DOMAIN collection_map
    /\ LET matched == query_images(images, image_metadata, column_map, table_columns,
                                   collection_map, collection, search_string, filter_params)
           r == get_dbimages(by_id(matched), 0, 0)
       IN  qry' = [op |-> "get_dbimages", collection |-> collection,
                   column |-> <<search_string, filter_params>>,
                   result |-> [images |-> {r.images[i] : i \in 1..Len(r.images)},
                               pagination |-> r.pagination]]
    /\ UNCHANGED <<catalogVars, pg, schemaVars, walkVars>>

----------------------------------------------------------------------------
(* SpecSearch: get_dbimages searches over every small catalog of "c1" *)

\* the container paths of the images: "a", "Ab", "b"
SearchPaths == << <<"a">>, <<"A", "b">>, <<"b">> >>

\* the values of column d1 of a Metadata row: NULL, "a", "B"
SearchValues == {NoneStr, Str(<<"a">>), Str(<<"B">>)}

\* the search strings: none, "a", "ab", "_"
SearchStrings == {<<>>, <<"a">>, <<"a", "b">>, <<"_">>}

\* the filters: none, d1 null, d1 containing "a"
FilterParams == {<<>>, [c \in {"d1"} |-> NoneText], [c \in {"d1"} |-> <<"a">>]}

\* the Metadata dicts for the paths of M, with their d1 values
search_rows(M, value) ==
    LET ordered == SelectSeq(SearchPaths, LAMBDA p : p \in M)
    IN  [i \in 1..Len(ordered) |->
            [path |-> ordered[i], collection_id |-> NULL,
             cols |-> [c \in {"d1"} |-> value[ordered[i]]]]]

\* a source producing the root image of each container of I
search_source(I) ==
    LET ordered == SelectSeq(SearchPaths, LAMBDA p : p \in I)
    IN  [i \in 1..Len(ordered) |-> <<ordered[i], Image(<<>>, 1)>>]

\* collections "c1" (column d1 registered) and "c2"; "c1" was loaded with
\* Metadata for the paths of M and images for the containers of I, "c2" with the
\* image of container "a" or with nothing
InitSearch ==
    /\ collections = {[id |-> 1, name |-> "c1", settings_path |-> "s1"],
                      [id |-> 2, name |-> "c2", settings_path |-> "s1"]}
    /\ collection_map = [n \in {"c1", "c2"} |->
                            [id |-> IF n = "c1" THEN 1 ELSE 2, name |-> n,
                             settings_path |-> "s1"]]
    /\ metadata_columns = {[id |-> 1, db_name |-> "d1", original_name |-> "Label 1",
                            collection_id |-> 1]}
    /\ column_map = load_column_map(metadata_columns)
    /\ reverse_column_map = load_reverse_column_map(metadata_columns)
    /\ table_columns = {"d1"}
    /\ \E M \in SUBSET {SearchPaths[i] : i \in 1..Len(SearchPaths)},
          I \in SUBSET {SearchPaths[i] : i \in 1..Len(SearchPaths)},
          J \in SUBSET {<<"a">>} :
          \E value \in [M -> SearchValues] :
              /\ image_metadata = add_rows({}, 1, search_rows(M, value), 0, 0).image_metadata
              /\ images = persist_images(
                              persist_images({}, image_metadata, 1, search_source(I), FALSE).images,
                              image_metadata, 2, search_source(J), FALSE).images
    /\ last = NoCall
    /\ source = <<>>
    /\ pg = NoPage
    /\ WalkIdle
    /\ qry = NoQuery

NextSearch ==
    \E collection \in {"c1", ""}, s \in SearchStrings, f \in FilterParams :
        GetDbimagesSearch(collection, s, f)

SpecSearch == InitSearch /\ [][NextSearch]_vars

\* text contains s, letters compared without regard to case
ContainsFolded(text, s) ==
    \E i \in 1..(Len(text) - Len(s) + 1) :
        \A j \in 1..Len(s) : lower(text[i + j - 1]) = lower(s[j])

\* the d1.. values of the Metadata row an image is linked to
LinkedValue(image, c) ==
    IF \E m \in image_metadata : m.id = image.image_metadata_id
    THEN (CHOOSE m \in image_metadata : m.id = image.image_metadata_id).cols[c]
    ELSE NoneStr

\* C12: get_dbimages(collection, search_string, filter_params) returns exactly
\* the Image records of the collection that (a) for a non-empty search_string
\* contain it, case-insensitively, in the container path or in a dynamic
\* column registered for the collection, and (b) for every filter entry
\* column -> value have a linked value of that column containing value, the
\* value "None" asking for a null column instead.
C12_SearchAndFilter ==
    (qry.op = "get_dbimages" /\ qry.collection # "") =>
        LET cid == collection_map[qry.collection].id
            search_string == qry.column[1]
            filter_params == qry.column[2]
            registered == {r.db_name : r \in {q \in metadata_columns : q.collection_id = cid}}
            a(r) == \/ search_string = <<>>
                    \/ ContainsFolded(r.path, search_string)
                    \/ \E c \in registered :
                          /\ LinkedValue(r, c) # NoneStr
                          /\ ContainsFolded(LinkedValue(r, c)[1], search_string)
            b(r) == \A c \in DOMAIN filter_params :
                        IF filter_params[c] = NoneText THEN LinkedValue(r, c) = NoneStr
                        ELSE /\ LinkedValue(r, c) # NoneStr
                             /\ ContainsFolded(LinkedValue(r, c)[1], filter_params[c])
        IN  qry.result.images = {r \in images : r.collection_id = cid /\ a(r) /\ b(r)}

----------------------------------------------------------------------------
(* DBImage.get_image on the record persist_image wrote *)

\* session.query(DBImage).filter_by(collection, image_path).first().get_image()
\* for the key of the last persist_image call
GetImage ==
    /\ last.op = "persist_image"
    /\ LET found == first_image(images, collection_map[last.collection].id,
                                last.path \o last.image.group_path)
       IN  /\ found # {}
           /\ qry' = [NoQuery EXCEPT !.op = "get_image", !.collection = last.collection,
                                     !.result = <<get_image((CHOOSE r \in found : TRUE).image_info)>>]
    /\ UNCHANGED <<catalogVars, pg, schemaVars, walkVars>>

----------------------------------------------------------------------------
(* SpecRoundTrip: descriptors stored by persist_image and read back *)

\* channel lists and axes as the decoder builds them
ChannelLists ==
    {<<>>, <<Channel("Ch0", "magenta")>>,
     <<Channel("Ch0", "magenta"), Channel("Ch1", "green")>>}

AxesLists == {<<>>, <<Axis("x", 1)>>}

RichDescriptors ==
    {ImageOf(g, n, c, a) : g \in GroupPaths, n \in ChannelCounts,
                           c \in ChannelLists, a \in AxesLists}

\* collection "c1" exists and holds no image
InitRoundTrip ==
    /\ collections = {[id |-> 1, name |-> "c1", settings_path |-> "s1"]}
    /\ collection_map = [n \in {"c1"} |-> [id |-> 1, name |-> "c1", settings_path |-> "s1"]]
    /\ image_metadata = {}
    /\ images = {}
    /\ last = NoCall
    /\ source = <<>>
    /\ pg = NoPage
    /\ WalkIdle
    /\ NoColumns
    /\ qry = NoQuery

NextRoundTrip ==
    \/ \E d \in RichDescriptors : PersistImage("c1", <<"a">>, d, NULL)
    \/ GetImage

SpecRoundTrip == InitRoundTrip /\ [][NextRoundTrip]_vars

\* C21: a descriptor stored with persist_image (set_image) and read back with
\* get_image is equal to the descriptor that was stored, whether or not it
\* carries Channel and Axis entries
C21_StoreReadRoundTrip ==
    [][(qry' # qry /\ qry'.op = "get_image") => qry'.result = <<last.image>>]_vars

----------------------------------------------------------------------------
(* persist_images one image at a time, and a run that stops part-way *)

\* persist_images(collection "c1", image_generator, only_with_metadata) is
\* called: the metadata ids are loaded, count = 0; after a run that stopped
\* this is the same call repeated from the start (again)
RunBegin(only_with_metadata) ==
    /\ status \in {"idle", "stopped"}
    /\ status = "stopped" => only_with_metadata = last.only_with_metadata
    /\ status' = "running"
    /\ yielded' = <<>>
    /\ run_count' = 0
    /\ last' = [NoCall EXCEPT !.op = "persist_images", !.collection = "c1",
                              !.only_with_metadata = only_with_metadata,
                              !.again = (status = "stopped")]
    /\ UNCHANGED <<collections, collection_map, image_metadata, images, source>>
    /\ UNCHANGED <<agents, asked, hierarchy, store, exclude_paths, maxdepth, todo, decoding, listed, answers, logged>>
    /\ UNCHANGED <<pg, qry, schemaVars>>

\* one pass of persist_images' for loop: the generator produces its next pair
\* and the loop body runs for it, persist_image committing its own session
RunStep ==
    /\ status = "running" /\ Len(yielded) < Len(source)
    /\ LET produced == source[Len(yielded) + 1]
           step == persist_one(images, 1, RunMetadataIds, produced[1], produced[2],
                               last.only_with_metadata)
       IN  /\ yielded' = Append(yielded, produced)
           /\ images' = step.images
           /\ run_count' = run_count + step.persisted
    /\ UNCHANGED <<collections, collection_map, image_metadata, last, source>>
    /\ UNCHANGED <<agents, asked, hierarchy, store, exclude_paths, maxdepth, todo, decoding, listed, answers, logged,
                   status>>
    /\ UNCHANGED <<pg, qry, schemaVars>>

\* the process ends between two passes of the loop
RunStop ==
    /\ status = "running"
    /\ status' = "stopped"
    /\ UNCHANGED <<catalogVars, pg, qry, schemaVars>>
    /\ UNCHANGED <<agents, asked, hierarchy, store, exclude_paths, maxdepth, todo, decoding, listed, answers, yielded,
                   logged, run_count>>

\* the generator is exhausted: persist_images returns count
RunReturn ==
    /\ status = "running" /\ Len(yielded) = Len(source)
    /\ status' = "returned"
    /\ last' = [last EXCEPT !.count = run_count]
    /\ UNCHANGED <<collections, collection_map, image_metadata, images, source>>
    /\ UNCHANGED <<agents, asked, hierarchy, store, exclude_paths, maxdepth, todo, decoding, listed, answers, yielded,
                   logged, run_count>>
    /\ UNCHANGED <<pg, qry, schemaVars>>

----------------------------------------------------------------------------
(* SpecCrash: import runs of collection "c1" that may stop between two     *)
(* images and are repeated from the start                                  *)

\* collection "c1" with any metadata rows of MetaPaths, no image, no run yet
InitCrash ==
    /\ collections = {[id |-> 1, name |-> "c1", settings_path |-> "s1"]}
    /\ collection_map = [n \in {"c1"} |-> [id |-> 1, name |-> "c1", settings_path |-> "s1"]]
    /\ \E rows \in SeqsUpTo({[path |-> p, collection_id |-> NULL, cols |-> <<>>] : p \in MetaPaths}, 2) :
          image_metadata = add_rows({}, 1, rows, 0, 0).image_metadata
    /\ images = {}
    /\ last = NoCall
    /\ source \in Sources
    /\ pg = NoPage
    /\ NoColumns
    /\ qry = NoQuery
    /\ WalkIdle

NextCrash ==
    \/ \E o \in BOOLEAN : RunBegin(o)
    \/ RunStep
    \/ RunStop
    \/ RunReturn

SpecCrash == InitCrash /\ [][NextCrash]_vars

----------------------------------------------------------------------------
(* Claims about interrupted import runs, checked under SpecCrash *)

\* the image path a produced pair is stored under
KeyOf(produced) == produced[1] \o produced[2].group_path

\* the images table after an uninterrupted run over the first k pairs of the
\* source, begun on the empty table
RunTable(k) ==
    persist_images({}, image_metadata, 1, SubSeq(source, 1, k), last.only_with_metadata).images

\* the record the uninterrupted run holds for the i-th pair right after it
\* processed that pair
RecordWritten(i) == {r \in RunTable(i) : r.image_path = KeyOf(source[i])}

\* C22: when an import run stops between two persist_image calls, every Image
\* record in the table is a complete record equal to one the uninterrupted run
\* writes for that image path, the images the run did not reach are absent,
\* and the run repeated from the start until it returns leaves the table of
\* one uninterrupted run
C22_CrashConsistent ==
    /\ status \in {"running", "stopped", "returned"} =>
          \A r \in images : \E i \in 1..Len(source) : r \in RecordWritten(i)
    /\ (status \in {"running", "stopped"} /\ ~last.again) =>
          /\ images = RunTable(Len(yielded))
          /\ \A i \in (Len(yielded) + 1)..Len(source) :
                (\A j \in 1..Len(yielded) : KeyOf(source[j]) # KeyOf(source[i]))
                => ~\E r \in images : r.image_path = KeyOf(source[i])
    /\ status = "returned" => images = RunTable(Len(source))

\* a run over two images stopped after the first one, was repeated and
\* returned with both records
C22_Witness ==
    /\ status = "returned" /\ last.again
    /\ Len(source) = 2 /\ KeyOf(source[1]) # KeyOf(source[2])
    /\ Cardinality(images) = 2
    /\ \E r \in images : r.image_metadata_id # NULL

----------------------------------------------------------------------------
(* Claims about the decoding of one container, checked under SpecWalk *)

\* C23: a container whose decoding raises contributes no Image record: none
\* of its images is persisted by the run, the ones decoded before the failing
\* image group included.
C23_FailedContainerContributesNothing ==
    \A r \in images : r.path \notin CorruptContainers

\* C24: persist_image is called for an image of a container only after every
\* image group of that container has been decoded.
C24_DecodeBeforePersist ==
    [][run_count' # run_count =>
          \A i \in 1..Len(GroupsOf(store, decoding[1].path)) :
              \E j \in 1..Len(yielded') :
                  /\ yielded'[j][1] = decoding[1].path
                  /\ yielded'[j][2].group_path = GroupsOf(store, decoding[1].path)[i]]_vars

----------------------------------------------------------------------------
(* SpecAgents: the walk with every list of up to MaxAgents agents *)

\* most agents yield_images is called with
MaxAgents == 2

WalkResults == {"CONTAINER", "END", "CONTINUE"}

\* the agents of other formats: they recognize "a", "a/d", both or neither
AgentTables ==
    {[p \in Dirs |-> CASE p = <<"a">> -> ra [] p = <<"a", "/", "d">> -> rd [] OTHER -> "CONTINUE"] :
        ra \in WalkResults, rd \in WalkResults}

Agents == {OmeZarrAgent} \cup {TableAgent(t) : t \in AgentTables}

\* collection "c1" over a store in which "a/d" is an OME-Zarr container and
\* "b/d" holds raw chunk data
InitAgents ==
    /\ collections = {[id |-> 1, name |-> "c1", settings_path |-> "s1"]}
    /\ collection_map = [n \in {"c1"} |-> [id |-> 1, name |-> "c1", settings_path |-> "s1"]]
    /\ image_metadata = {}
    /\ images = {}
    /\ last = NoCall
    /\ source = <<>>
    /\ pg = NoPage
    /\ NoColumns
    /\ qry = NoQuery
    /\ agents \in SeqsUpTo(Agents, MaxAgents)
    /\ asked = <<>>
    /\ hierarchy = NoHierarchy
    /\ store = [zattrs |-> {<<"a", "/", "d">>}, zarray |-> {<<"b", "/", "d">>},
                multi |-> {}, denied |-> {}, corrupt |-> {}, cyclic |-> {}]
    /\ exclude_paths = <<>>
    /\ maxdepth = 2
    /\ todo = <<[path |-> Root, depth |-> 0]>>
    /\ decoding = <<>>
    /\ listed = {}
    /\ answers = {}
    /\ yielded = <<>>
    /\ logged = 0
    /\ status = "running"
    /\ run_count = 0

NextAgents ==
    \/ WalkVisit
    \/ DecodeYield
    \/ WalkReturn

SpecAgents == InitAgents /\ [][NextAgents]_vars

\* the calls of one kind made for a path, in the order they were made
CallsAt(log, call, p) == SelectSeq(log, LAMBDA c : c.call = call /\ c.path = p)

\* some agent asked about p answered CONTAINER or END
Decided(log, p) ==
    \E i \in 1..Len(log) :
        log[i].call = "walk" /\ log[i].path = p /\ log[i].result \in {"CONTAINER", "END"}

\* the child directories of p, in listing order
ChildDirs(p) == [i \in 1..Len(SubdirNames(p)) |-> Join(p, SubdirNames(p)[i])]

\* C25, for the paths visited so far: the recognizers were asked in
\* registration order, each answered as its walk does, all before the last one
\* asked answered CONTINUE and the asking stopped before the end of the list
\* only at an answer CONTAINER or END; images were produced only by the
\* recognizer that answered CONTAINER; and no child of a decided path is
\* visited or waiting to be visited
FirstMatchDecides ==
    \A p \in listed :
        LET w == CallsAt(asked, "walk", p)
            y == CallsAt(asked, "yield_images", p)
        IN  /\ Len(w) <= Len(agents)
            /\ \A i \in 1..Len(w) :
                  /\ w[i].agent = i
                  /\ w[i].result = agent_walk(agents[i], p, get_children(store, p))
            /\ \A i \in 1..(Len(w) - 1) : w[i].result = "CONTINUE"
            /\ Len(w) < Len(agents) => w[Len(w)].result \in {"CONTAINER", "END"}
            /\ Len(y) <= 1
            /\ y # <<>> => w[Len(w)].result = "CONTAINER" /\ y[1].agent = Len(w)
            /\ p \in YieldedPaths => y # <<>>
            /\ Decided(asked, p) =>
                  \A i \in 1..Len(ChildDirs(p)) :
                      /\ ChildDirs(p)[i] \notin listed
                      /\ \A j \in 1..Len(todo) : todo[j].path # ChildDirs(p)[i]

\* C25, for the visit of a path: when every recognizer answered CONTINUE the
\* calls for its child directories, in listing order and at depth + 1, are
\* the next ones made
ChildrenWalkedInOrder ==
    (listed' # listed /\ ~Decided(asked', todo[1].path)) =>
        todo' = [i \in 1..Len(ChildDirs(todo[1].path)) |->
                    [path |-> ChildDirs(todo[1].path)[i], depth |-> todo[1].depth + 1]]
                \o Tail(todo)

\* C25: for each visited path the recognizers are asked in registration order
\* and the first that answers CONTAINER or END decides: the later ones are not
\* asked, only a recognizer that answered CONTAINER produces images for the
\* path, its children are never descended into, and the child directories are
\* walked, in listing order at depth + 1, only when every recognizer answered
\* CONTINUE.
C25_FirstMatchDecides == [](FirstMatchDecides) /\ [][ChildrenWalkedInOrder]_vars

\* a format agent that answers END for "a/d" stands before OmeZarrAgent, which
\* would answer CONTAINER: OmeZarrAgent is asked about "a" but not about
\* "a/d", and "a/d" yields no image
C25_Witness ==
    /\ status = "returned"
    /\ Len(agents) = 2
    /\ agents[2] = OmeZarrAgent
    /\ agents[1].class = "TableAgent"
    /\ agents[1].table[<<"a">>] = "CONTINUE"
    /\ agents[1].table[<<"a", "/", "d">>] = "END"
    /\ Len(CallsAt(asked, "walk", <<"a">>)) = 2
    /\ Len(CallsAt(asked, "walk", <<"a", "/", "d">>)) = 1
    /\ <<"a", "/", "e">> \in listed
    /\ yielded = <<>>

----------------------------------------------------------------------------
(* SpecDeep: the walk over stores with a cyclic directory, fairly scheduled *)

\* the default of yield_images' maxdepth
DefaultMaxDepth == 10

\* largest maxdepth of a walk over a store whose cycle branches
MaxBranchingDepth == 3

\* the stores and depth limits: "b/d" linking to itself makes one endless
\* chain and is walked with every maxdepth up to the default; the root or "a"
\* linking to itself makes an endless tree and is walked up to
\* MaxBranchingDepth
DeepWalks ==
    {<<c, m>> : c \in {{}, {<<"b", "/", "d">>}}, m \in 0..DefaultMaxDepth}
    \cup {<<c, m>> : c \in {{Root}, {<<"a">>}}, m \in 0..MaxBranchingDepth}

InitDeep ==
    /\ collections = {[id |-> 1, name |-> "c1", settings_path |-> "s1"]}
    /\ collection_map = [n \in {"c1"} |-> [id |-> 1, name |-> "c1", settings_path |-> "s1"]]
    /\ image_metadata = {}
    /\ images = {}
    /\ last = NoCall
    /\ source = <<>>
    /\ pg = NoPage
    /\ NoColumns
    /\ qry = NoQuery
    /\ agents = <<OmeZarrAgent>>
    /\ asked = <<>>
    /\ hierarchy = NoHierarchy
    /\ \E w \in DeepWalks, Z \in {{}, {<<"a", "/", "d">>}} :
          /\ store = [zattrs |-> Z, zarray |-> {}, multi |-> {}, denied |-> {},
                      corrupt |-> {}, cyclic |-> w[1]]
          /\ maxdepth = w[2]
    /\ exclude_paths = <<>>
    /\ todo = <<[path |-> Root, depth |-> 0]>>
    /\ decoding = <<>>
    /\ listed = {}
    /\ answers = {}
    /\ yielded = <<>>
    /\ logged = 0
    /\ status = "running"
    /\ run_count = 0

NextDeep ==
    \/ WalkTooDeep
    \/ WalkVisit
    \/ DecodeYield
    \/ WalkReturn

\* the consumer keeps asking the generator for the next image, and every
\* step of the walk is a call that returns
SpecDeep == InitDeep /\ [][NextDeep]_vars /\ WF_vars(NextDeep)

\* the depth of a path beneath the start path: the number of its components
depth_of(path) == IF path = Root THEN 0 ELSE (Len(path) + 1) \div 2

\* C26: the walker never lists a path at a depth greater than maxdepth (the
\* start path being depth 0), and the walk over a store whose directories
\* have finitely many children ends, also when the directory structure is
\* cyclic or deeper than maxdepth.
C26_DepthBounded ==
    /\ [](\A p \in listed : depth_of(p) <= maxdepth)
    /\ <>(status = "returned")

\* the walk with the default maxdepth over the store in which "b/d" links to
\* itself has listed a path at depth 10 and has ended
C26_Witness ==
    /\ status = "returned"
    /\ maxdepth = DefaultMaxDepth
    /\ store.cyclic = {<<"b", "/", "d">>}
    /\ \E p \in listed : depth_of(p) = DefaultMaxDepth

----------------------------------------------------------------------------
(* The OME-Zarr decoder: _yield_image_groups and _encode_image's channels *)

\* the groups a container may hold beside its root group "", named by their
\* path in the container (zarr's Group.name is "/" followed by this path)
NumberedGroups == <<"0", "1", "2">>

\* the child groups of a group, in the order Group.groups() yields them
child_groups(h, group) ==
    CASE group = "" -> SelectSeq(NumberedGroups \o <<"A">>, LAMBDA g : g \in h.groups)
      [] group = "A" -> SelectSeq(<<"A/0">>, LAMBDA g : g \in h.groups)
      [] group = "A/0" -> SelectSeq(<<"A/0/L">>, LAMBDA g : g \in h.groups)
      [] OTHER -> <<>>

\* _yield_nested_image_groups: each child group that has multiscales, and
\* after each child group, with or without multiscales, the groups the same
\* search finds beneath it
RECURSIVE yield_nested_image_groups(_, _)
yield_nested_image_groups(h, group) ==
    LET RECURSIVE over(_)
        over(children) ==
            IF children = <<>> THEN <<>>
            ELSE (IF children[1] \in h.multiscales THEN <<children[1]>> ELSE <<>>)
                 \o yield_nested_image_groups(h, children[1])
                 \o over(Tail(children))
    IN  over(child_groups(h, group))

\* the loop 'for i in itertools.count(): try: yield z[str(i)] except
\* IndexError: break': the numbered groups up to the first missing one, where
\* z[str(i)] raises KeyError, which the except clause does not catch
probe_numbered(h) ==
    LET present == {i \in 1..Len(NumberedGroups) :
                        \A j \in 1..i : NumberedGroups[j] \in h.groups}
    IN  [groups |-> [i \in 1..Cardinality(present) |-> NumberedGroups[i]], raised |-> TRUE]

\* _yield_image_groups: the image groups it yields, and whether the generator
\* ended by an exception
yield_image_groups(h) ==
    IF h.layout THEN
        IF h.ome THEN [groups |-> h.series, raised |-> FALSE]
        ELSE probe_numbered(h)
    ELSE IF "" \in h.multiscales THEN [groups |-> <<"">>, raised |-> FALSE]
    ELSE [groups |-> yield_nested_image_groups(h, ""), raised |-> FALSE]

\* for image_group in _yield_image_groups(fs, path)
YieldImageGroups ==
    /\ qry' = [NoQuery EXCEPT !.op = "yield_image_groups",
                              !.result = <<yield_image_groups(hierarchy)>>]
    /\ UNCHANGED <<catalogVars, pg, schemaVars, walkVars>>

\* the palette of _yield_color
Palette == <<"magenta", "green", "cyan", "white", "red", "green", "blue">>

\* most channels of an image group without OMERO metadata
MaxChannels == 9

\* _encode_image for a group without 'omero': one Channel(f"Ch{i}",
\* next(color_generator)) for each i in range(num_channels); next() on the
\* exhausted generator raises StopIteration. The name "Ch<i>" is the pair
\* ("Ch", i)
synthesize_channels(num_channels) ==
    IF num_channels > Len(Palette)
    THEN [channels |-> <<>>, raised |-> TRUE]
    ELSE [channels |-> [i \in 1..num_channels |-> Channel(<<"Ch", i - 1>>, Palette[i])],
          raised |-> FALSE]

\* _encode_image(image_group) of a group with num_channels channels and no
\* OMERO metadata
EncodeImage(num_channels) ==
    /\ qry' = [NoQuery EXCEPT !.op = "encode_image", !.column = "channels",
                              !.result = <<[num_channels |-> num_channels]
                                           @@ synthesize_channels(num_channels)>>]
    /\ UNCHANGED <<catalogVars, pg, schemaVars, walkVars>>

----------------------------------------------------------------------------
(* SpecDecode: the decoder over every small container *)

\* the nested groups are a chain: "A/0" lies in "A", "A/0/L" in "A/0"
NestedChains == {{}, {"A"}, {"A", "A/0"}, {"A", "A/0", "A/0/L"}}

\* The containers: any of the numbered groups, each with multiscales; a chain
\* of nested groups, any of them with multiscales; the root group with or
\* without multiscales and with or without the bioformats2raw.layout flag;
\* the OME group, when present, listing the numbered groups last first
Hierarchies ==
    {[layout |-> l, ome |-> o,
      series |-> IF o THEN SelectSeq(<<"2", "1", "0">>, LAMBDA g : g \in N) ELSE <<>>,
      groups |-> N \cup C,
      multiscales |-> N \cup M \cup R] :
        l \in BOOLEAN, o \in BOOLEAN,
        N \in SUBSET {"0", "1", "2"},
        C \in NestedChains,
        M \in SUBSET {"A", "A/0", "A/0/L"},
        R \in {{}, {""}}}

InitDecode ==
    /\ collections = {}
    /\ collection_map = <<>>
    /\ image_metadata = {}
    /\ images = {}
    /\ last = NoCall
    /\ source = <<>>
    /\ pg = NoPage
    /\ NoColumns
    /\ qry = NoQuery
    /\ agents = <<>>
    /\ asked = <<>>
    /\ hierarchy \in {h \in Hierarchies : h.multiscales \subseteq h.groups \cup {""}}
    /\ store = [zattrs |-> {}, zarray |-> {}, multi |-> {}, denied |-> {}, corrupt |-> {},
                cyclic |-> {}]
    /\ exclude_paths = <<>>
    /\ maxdepth = 0
    /\ todo = <<>>
    /\ decoding = <<>>
    /\ listed = {}
    /\ answers = {}
    /\ yielded = <<>>
    /\ logged = 0
    /\ status = "idle"
    /\ run_count = 0

NextDecode ==
    \/ YieldImageGroups
    \/ \E n \in 0..MaxChannels : EncodeImage(n)

SpecDecode == InitDecode /\ [][NextDecode]_vars

\* the group lies beneath a nested group that has multiscales
BeneathImage(h, g) ==
    \/ g = "A/0" /\ "A" \in h.multiscales
    \/ g = "A/0/L" /\ ("A" \in h.multiscales \/ "A/0" \in h.multiscales)

\* the items of a sequence
Range(s) == {s[i] : i \in 1..Len(s)}

\* C27: the decoder selects the image groups of a container by the first rule
\* that applies: (1) bioformats2raw layout with an OME group: the paths of the
\* series list, in its order; (2) the layout without OME: the groups "0", "1",
\* ... up to the first missing number, the selection ending normally there;
\* (3) multiscales in the root attributes: the root group alone; (4)
\* otherwise the nested groups that have multiscales and lie beneath no other
\* group that has it.
C27_GroupSelection ==
    qry.op = "yield_image_groups" =>
        LET h == hierarchy
            r == qry.result[1]
        IN  /\ ~r.raised
            /\ (h.layout /\ h.ome) => r.groups = h.series
            /\ (h.layout /\ ~h.ome) =>
                  \A i \in 1..Len(NumberedGroups) :
                      NumberedGroups[i] \in Range(r.groups)
                      <=> \A j \in 1..i : NumberedGroups[j] \in h.groups
            /\ (h.layout /\ ~h.ome) => Range(r.groups) \subseteq Range(NumberedGroups)
            /\ (~h.layout /\ "" \in h.multiscales) => r.groups = <<"">>
            /\ (~h.layout /\ "" \notin h.multiscales) =>
                  /\ Range(r.groups) = {g \in h.groups \cap h.multiscales : ~BeneathImage(h, g)}
                  /\ Len(r.groups) = Cardinality(Range(r.groups))

\* C28: for an image group without OMERO channels the decoder produces
\* num_channels Channel entries, the i-th named "Ch<i>" and coloured
\* palette[i mod 7], for every channel count, those above 7 included.
C28_SynthesizedChannels ==
    qry.op = "encode_image" =>
        LET r == qry.result[1]
        IN  /\ ~r.raised
            /\ Len(r.channels) = r.num_channels
            /\ \A i \in 0..(r.num_channels - 1) :
                  r.channels[i + 1] = Channel(<<"Ch", i>>, Palette[(i % 7) + 1])

----------------------------------------------------------------------------
(* Claims about the in-memory maps, checked under SpecSchema *)

\* the (key, value) pairs a map holds for a collection id, none when the id
\* is not a key
PairsOf(map, cid) ==
    IF cid \in DOMAIN map THEN {<<k, map[cid][k]>> : k \in DOMAIN map[cid]} ELSE {}

StoredColumns(cid) == {r \in metadata_columns : r.collection_id = cid}

\* C29: after any sequence of add_collection, add_metadata_column and
\* delete_collection calls on one Database object, collection_map holds
\* exactly the stored collections by name, with their id and origin;
\* column_map holds for each collection exactly its stored (db_name,
\* original_name) pairs; and reverse_column_map holds for each stored label
\* the db_name of the stored column that carries it, the one stored last when
\* two columns of a collection carry the same label: the maps a freshly
\* constructed Database loads from the same tables.
C29_MapsAgreeWithTables ==
    /\ DOMAIN collection_map = {r.name : r \in collections}
    /\ \A n \in DOMAIN collection_map :
          collection_map[n] \in collections /\ collection_map[n].name = n
    /\ \A cid \in 1..MaxCollectionId :
          /\ PairsOf(column_map, cid)
                = {<<r.db_name, r.original_name>> : r \in StoredColumns(cid)}
          /\ PairsOf(reverse_column_map, cid)
                = {<<r.original_name, r.db_name>> :
                      r \in {q \in StoredColumns(cid) :
                                \A x \in StoredColumns(cid) :
                                    x.original_name = q.original_name => x.id <= q.id}}
    /\ DOMAIN column_map \subseteq 1..MaxCollectionId
    /\ DOMAIN reverse_column_map \subseteq 1..MaxCollectionId
    /\ column_map = load_column_map(metadata_columns)
    /\ reverse_column_map = load_reverse_column_map(metadata_columns)
    /\ collection_map = load_collection_map(collections)

\* "c1", which had a column, was deleted; "c2" is left with two columns of
\* one label, and the maps hold "c2" alone
C29_Witness ==
    /\ last.op = "delete_collection" /\ last.collection = "c1"
    /\ DOMAIN collection_map = {"c2"}
    /\ Cardinality(metadata_columns) = 2
    /\ \E cid \in DOMAIN column_map :
          /\ DOMAIN column_map = {cid}
          /\ column_map[cid] = [d \in {"d1", "d2"} |-> "Label 1"]
          /\ reverse_column_map[cid] = [o \in {"Label 1"} |-> "d2"]
    /\ \E r \in metadata_columns : r.id = 3

----------------------------------------------------------------------------
(* Database.update_image_metadata *)

\* The image_metadata table after update_image_metadata: UPDATE ... WHERE id =
\* metadata_id with the values of the dict and collection_id = the id of the
\* named collection. A row that would repeat a (collection_id, path) pair
\* breaks uq_collection_path: IntegrityError, which the method does not catch
update_image_metadata(meta, collection_id, metadata_id, updated_metadata) ==
    LET found == {r \in meta : r.id = metadata_id}
        changed == {[r EXCEPT !.collection_id = collection_id,
                              !.cols = [c \in DbNames |->
                                           IF c \in DOMAIN updated_metadata
                                           THEN updated_metadata[c] ELSE r.cols[c]]]
                       : r \in found}
        clash == \E r \in changed, q \in meta \ found :
                     q.collection_id = r.collection_id /\ q.path = r.path
    IN  IF clash THEN [image_metadata |-> meta, raised |-> TRUE, returned |-> {}]
        ELSE [image_metadata |-> (meta \ found) \cup changed, raised |-> FALSE,
              returned |-> {found # {}}]

\* update_image_metadata(collection_name, metadata_id, updated_metadata)
UpdateImageMetadata(collection_name, metadata_id, updated_metadata) ==
    /\ collection_name \in DOMAIN collection_map
    /\ LET r == update_image_metadata(image_metadata, collection_map[collection_name].id,
                                      metadata_id, updated_metadata)
       IN  /\ image_metadata' = r.image_metadata
           /\ last' = [NoCall EXCEPT !.op = "update_image_metadata",
                                     !.collection = collection_name,
                                     !.metadata_id = metadata_id,
                                     !.raised = r.raised,
                                     !.returned = r.returned]
    /\ UNCHANGED <<collections, collection_map, images, source>>
    /\ UNCHANGED <<pg, qry, schemaVars, walkVars>>

----------------------------------------------------------------------------
(* SpecFrame: the catalog operations addressed to "c1", beside a           *)
(* collection "c2" that holds a column, a metadata row and an image        *)

\* the dicts update_image_metadata is called with
UpdatedMetadata == {[c \in {"d1"} |-> v] : v \in {NoneStr, Str(<<"b">>)}}

\* "c1" and "c2" with the column "d1" each; "c2" holds the metadata row of
\* path "a" and the image "a/0" linked to it
InitFrame ==
    /\ collections = {[id |-> 1, name |-> "c1", settings_path |-> "s1"],
                      [id |-> 2, name |-> "c2", settings_path |-> "s1"]}
    /\ collection_map = load_collection_map(collections)
    /\ metadata_columns = {[id |-> i, db_name |-> "d1", original_name |-> "Label 1",
                            collection_id |-> i] : i \in {1, 2}}
    /\ column_map = load_column_map(metadata_columns)
    /\ reverse_column_map = load_reverse_column_map(metadata_columns)
    /\ table_columns = {"d1"}
    /\ image_metadata = add_rows({}, 2, <<[path |-> <<"a">>, collection_id |-> NULL,
                                          cols |-> [c \in {"d1"} |-> Str(<<"a">>)]]>>,
                                 0, 0).image_metadata
    /\ source = OneImage
    /\ images = persist_images({}, image_metadata, 2, source, FALSE).images
    /\ last = NoCall
    /\ pg = NoPage
    /\ WalkIdle
    /\ qry = NoQuery

NextFrame ==
    \/ \E pd \in UpsertInputs, m \in {NULL, 1} : PersistImage("c1", pd[1], pd[2], m)
    \/ \E o \in BOOLEAN : PersistImages("c1", o)
    \/ \E row \in MetaRows({"d1"}, {Str(<<"a">>)}) :
          /\ AddImageMetadata("c1", <<row>>)
          /\ \A r \in image_metadata' : r.id <= MaxMetaId
    \/ \E i \in 1..MaxMetaId, u \in UpdatedMetadata : UpdateImageMetadata("c1", i, u)
    \/ \E d \in DbNames : AddMetadataColumn("c1", d, "Label 2")
    \/ DeleteCollection("c1")

SpecFrame == InitFrame /\ [][NextFrame]_vars

\* the Metadata rows, Metadata Columns and Image records of a collection
RowsOf(meta, cols, imgs, cid) ==
    <<{r \in meta : r.collection_id = cid},
      {r \in cols : r.collection_id = cid},
      {r \in imgs : r.collection_id = cid}>>

\* C30: persist_image, persist_images, add_image_metadata,
\* update_image_metadata, add_metadata_column and delete_collection addressed
\* to collection "c1" leave the Metadata rows, Metadata Columns and Image
\* records of the other collection, "c2", unchanged, whatever ids and paths
\* are passed.
C30_OtherCollectionUnchanged ==
    [][(/\ last'.collection = "c1"
        /\ last'.op \in {"persist_image", "persist_images", "add_image_metadata",
                         "update_image_metadata", "add_metadata_column",
                         "delete_collection"})
       => RowsOf(image_metadata', metadata_columns', images', 2)
            = RowsOf(image_metadata, metadata_columns, images, 2)]_vars

====
